---- MODULE Spec2Model ----
(***************************************************************************)
(* State-machine model of the iPhone-Mirroring autofill capture tool:      *)
(* the app-launch orchestrator (src/automation/flow/app-launch.ts), the    *)
(* per-app capture flow (src/automation/flow/capture.ts), per-character    *)
(* typing with screenshots (automation/interaction) and the calibration    *)
(* profile store (automation/flow/profile-store).                          *)
(*                                                                         *)
(* The host primitives (frontmost probe, osascript keystroke, cliclick,    *)
(* screencapture) are external commands: every call is a nondeterministic  *)
(* choice over the outcomes the primitive's code can produce.              *)
(***************************************************************************)
EXTENDS Integers, Sequences, FiniteSets, TLC

VARIABLES
    cmd,                \* top-level entry point that is running
    cfgShortcuts,       \* CAPTURE_USE_MIRROR_SHORTCUTS
    app,                \* SupportedApp being driven
    flow,               \* AppFlowDefinition of app
    points,             \* calibrated action names of app (profile.points.appActionPoints[app])
    pc,                 \* position in the running async call chain
    stack,              \* return positions of the enclosing calls
    phase,              \* "attempt" inside the try block, "fallback", or "plain"
    attempts,           \* result of buildLaunchAttempts()
    attemptNo,          \* number of the attempt the for-loop is at
    usedSearchShortcut, \* runSearchEntry's local / SearchEntryResult
    lastError,          \* openAppBySearchWithFallback's lastError is set
    result,             \* "running", "success" or "error"
    obs,                \* what an observer of the run has seen so far
    query,              \* the search text of the capture run
    stepIndex,          \* loop index of the running for-loop outside the launch
    typed,              \* characters typed into the app's search field so far
    shots,              \* screenshots taken: the typed text each one shows
    file,               \* BASE_COORDINATES_FILE: <<>> when absent, else <<profile>>
    snapshots,          \* the *.snapshot-<timestamp>.json files next to it
    clock,              \* wall clock read by new Date()
    job,                \* locals of the running calibration command
    rawProfile,         \* JSON value handed to validateCalibrationProfile
    loaded,             \* its outcome: the validated profile or the error
    reloaded,           \* outcome of validating the persisted profile again
    catalog,            \* the action catalog handed to calibrate-all
    ordering,           \* outcome of getAllCalibrationDefinitionsForAllMode
    wf,                 \* locals of runCalibrateAllWorkflow and of its driver
    prompt,             \* the interactive prompt: its readline interface and timer
    trace,              \* the calls runCalibrateAllStep has made, in order
    geo,                \* a coordinate conversion: bounds payload, region, points
    focus,              \* ensureMirrorFrontmost's loop: attempt, calls made, result
    update              \* a call of updateActionPointInProfile: argument and result

vars == <<cmd, cfgShortcuts, app, flow, points, pc, stack, phase, attempts,
          attemptNo, usedSearchShortcut, lastError, result, obs,
          query, stepIndex, typed, shots, file, snapshots, clock, job,
          rawProfile, loaded, reloaded, catalog, ordering, wf, prompt, trace,
          geo, focus, update>>

----------------------------------------------------------------------------
(* Static data                                                             *)

SUPPORTED_APPS == {"chrome", "instagram", "tiktok"}

SearchEntryMode == {"shortcut", "searchIcon", "homeThenSearchIcon", "legacyHomeIconOnly"}

SearchSubmitMode == {"enter", "tapResult"}

MIRROR_HOME_SHORTCUT_KEY == "1"

MIRROR_SEARCH_SHORTCUT_KEY == "3"

APP_LAUNCH_QUERY ==
    [a \in SUPPORTED_APPS |->
        CASE a = "chrome" -> <<"C", "h", "r", "o", "m", "e">>
          [] a = "instagram" -> <<"I", "n", "s", "t", "a", "g", "r", "a", "m">>
          [] a = "tiktok" -> <<"T", "i", "k", "T", "o", "k">>]

CLEAR_MODE == "select_all"

ActionId(a, action) == [app |-> a, action |-> action]

\* Number of taps in CHROME_SEARCH_STEPS, INSTAGRAM_SEARCH_STEPS, TIKTOK_SEARCH_STEPS.
SearchStepCount == [a \in SUPPORTED_APPS |-> IF a = "chrome" THEN 1 ELSE 2]

APP_FLOW_DEFINITIONS ==
    [a \in SUPPORTED_APPS |->
        IF a = "chrome"
        THEN [app |-> a, launch |-> "shortcut", searchSubmitMode |-> "enter",
              postLaunchActions |-> <<ActionId("chrome", "ellipsis"),
                                      ActionId("chrome", "newIncognitoTab")>>,
              inAppSearchPoint |-> "searchBar",
              fallbackSearchSteps |-> TRUE,
              requiredCalibrationForCapture |-> {ActionId("chrome", "ellipsis"),
                                                 ActionId("chrome", "newIncognitoTab")}]
        ELSE [app |-> a, launch |-> "shortcut", searchSubmitMode |-> "enter",
              postLaunchActions |-> <<>>,
              inAppSearchPoint |-> "",
              fallbackSearchSteps |-> TRUE,
              requiredCalibrationForCapture |-> {}]]

Definition(a, action, navigateTo, prereqs, required, fallbackTaps) ==
    [id |-> ActionId(a, action), forApp |-> a, autoNavigateTo |-> navigateTo,
     prerequisites |-> prereqs, requiredForCapture |-> required,
     fallbackTapSteps |-> fallbackTaps, skipInCalibrateAll |-> FALSE]

ACTION_CALIBRATION_DEFINITIONS ==
    << Definition("chrome", "ellipsis", "app-active", <<>>, TRUE, FALSE),
       Definition("chrome", "newIncognitoTab", "app-active",
                  <<ActionId("chrome", "ellipsis")>>, TRUE, FALSE),
       Definition("chrome", "searchBar", "search-focused",
                  <<ActionId("chrome", "ellipsis"), ActionId("chrome", "newIncognitoTab")>>,
                  FALSE, TRUE),
       Definition("chrome", "searchIcon", "search-entry", <<>>, FALSE, FALSE),
       Definition("instagram", "searchIcon", "search-entry", <<>>, FALSE, FALSE),
       Definition("tiktok", "searchIcon", "search-entry", <<>>, FALSE, FALSE),
       Definition("chrome", "homeIcon", "home", <<>>, FALSE, FALSE),
       Definition("instagram", "homeIcon", "home", <<>>, FALSE, FALSE),
       Definition("tiktok", "homeIcon", "home", <<>>, FALSE, FALSE) >>

DefinitionIndexes == 1..Len(ACTION_CALIBRATION_DEFINITIONS)

\* getActionDefinition: the first catalog entry with that id, if any.
HasActionDefinition(a, action) ==
    \E i \in DefinitionIndexes : ACTION_CALIBRATION_DEFINITIONS[i].id = ActionId(a, action)

getActionDefinition(a, action) ==
    LET i == CHOOSE j \in DefinitionIndexes :
                 /\ ACTION_CALIBRATION_DEFINITIONS[j].id = ActionId(a, action)
                 /\ \A k \in 1..(j-1) : ACTION_CALIBRATION_DEFINITIONS[k].id # ActionId(a, action)
    IN ACTION_CALIBRATION_DEFINITIONS[i]

\* Action names the catalog knows for an app.
ActionsOfApp(a) ==
    {ACTION_CALIBRATION_DEFINITIONS[i].id.action :
        i \in {j \in DefinitionIndexes : ACTION_CALIBRATION_DEFINITIONS[j].forApp = a}}

\* Every AppFlowDefinition the launch code distinguishes for an app: the
\* shipped definition with each launch style and submit mode of the types.
AppFlowShapes(a) ==
    {[APP_FLOW_DEFINITIONS[a] EXCEPT !.launch = l, !.searchSubmitMode = m] :
        l \in SearchEntryMode, m \in SearchSubmitMode}

----------------------------------------------------------------------------
(* Outcomes of the host primitives                                         *)

\* ensureMirrorFrontmost: true, false after six probes, or focusMirroring threw.
EnsureOutcomes == {"front", "notFront", "throw"}

\* sendHostKeystroke: true; false before the send (focus) or at the send
\* (osascript failed); or an exception before / after the send.
KeystrokeOutcomes == {"sent", "notFront", "dispatchFailed", "throwBefore", "throwAfter"}

\* applyAbsClickPoint / clickRel: clicked, or died at the focus check, or at
\* the region lookup / cliclick command.
ClickOutcomes == {"clicked", "notFront", "commandFailed"}

\* dragRel: dragged, or died before the first event, or between the events.
DragOutcomes == {"dragged", "failedAtStart", "failedAtMove", "failedAtRelease"}

\* clearField (CLEAR_MODE select_all): died at its own focus check, or ran
\* the select-all keystroke (any keystroke outcome) and then the delete
\* key presses, which succeed or die.
ClearOutcomes ==
    {[focus |-> f, keystroke |-> k, deletes |-> d] :
        f \in EnsureOutcomes, k \in KeystrokeOutcomes, d \in BOOLEAN}

\* typeText: died at the focus check, or typed k characters; fewer than the
\* whole text means cliclick died at character k+1.
TypeOutcomes(text) ==
    {[front |-> FALSE, done |-> 0]} \cup {[front |-> TRUE, done |-> k] : k \in 0..Len(text)}

\* tapSequence over n steps: died at its focus check, or made k taps; fewer
\* than n means clickRel died at step k+1.
TapSequenceOutcomes(n) ==
    {[front |-> FALSE, done |-> 0]} \cup {[front |-> TRUE, done |-> k] : k \in 0..n}

IsUiEvent(e) == e \in {"key", "tap", "drag", "char"}

\* Host events of one sendHostKeystroke call.
KeystrokeEvents(o) ==
    CASE o = "sent" -> <<"verify", "key", "verify">>
      [] o = "throwAfter" -> <<"verify", "key", "verify", "verify">>
      [] OTHER -> <<"verify">>

KeystrokeReturns(o) == o \in {"sent", "notFront", "dispatchFailed"}

KeystrokeResult(o) == o = "sent"

\* Host events of one applyAbsClickPoint call.
ClickEvents(o) == IF o = "clicked" THEN <<"verify", "tap">> ELSE <<"verify">>

\* Host events of one dragRel call.  The drag is one UI action made of three
\* cliclick events: dd and m each go through applyAbsClickPoint (focus check
\* first), the closing du is sent directly and completes the gesture.
DragEvents(o) ==
    CASE o = "dragged" -> <<"verify", "verify", "drag">>
      [] o \in {"failedAtRelease", "failedAtMove"} -> <<"verify", "verify">>
      [] OTHER -> <<"verify">>

BACKSPACE_COUNT == 40

\* Host events of one clearField call: focus check, Command+A, then one
\* delete (select-all sent) or BACKSPACE_COUNT deletes (select-all refused).
ClearEvents(o) ==
    IF o.focus # "front" THEN <<"verify">>
    ELSE <<"verify">> \o KeystrokeEvents(o.keystroke) \o
         (IF ~KeystrokeReturns(o.keystroke) \/ ~o.deletes THEN <<>>
          ELSE IF KeystrokeResult(o.keystroke) THEN <<"key">>
          ELSE [i \in 1..BACKSPACE_COUNT |-> "key"])

ClearReturns(o) == o.focus = "front" /\ KeystrokeReturns(o.keystroke) /\ o.deletes

\* Host events of one typeText call: one focus check, then the characters.
TypeEvents(o, text) ==
    IF ~o.front THEN <<"verify">>
    ELSE <<"verify">> \o [i \in 1..o.done |-> "char"]

TypeReturns(o, text) == o.front /\ o.done = Len(text)

\* Host events of one tapSequence call: its own focus check, then clickRel
\* (focus check, tap) per step.
TapSequenceEvents(o, n) ==
    IF ~o.front THEN <<"verify">>
    ELSE <<"verify">> \o [i \in 1..(2 * o.done) |-> IF i % 2 = 1 THEN "verify" ELSE "tap"]
         \o (IF o.done < n THEN <<"verify">> ELSE <<>>)

TapSequenceReturns(o, n) == o.front /\ o.done = n

----------------------------------------------------------------------------
(* Observation bookkeeping                                                 *)

NoKey == [key |-> "", modifiers |-> "", mode |-> "", attempt |-> 0]

NoTap == [target |-> "", attempt |-> 0]

InitObs ==
    [started |-> {}, raised |-> {}, completedWithShortcut |-> {},
     shortcutRefused |-> {}, fallbackCalls |-> 0, homeCalls |-> 0,
     homeFailures |-> 0, fallbackOutcome |-> "none", lastKey |-> NoKey, lastTap |-> NoTap,
     lastEv |-> "none", preGap |-> FALSE, postGap |-> FALSE,
     uiDone |-> FALSE, failure |-> "", tapSteps |-> <<>>,
     unsettled |-> FALSE, beganUnsettled |-> FALSE, settles |-> {},
     entered |-> FALSE, typedName |-> FALSE, submitted |-> {},
     submittedEarly |-> FALSE]

\* Fold a primitive's host events into the observer's view: the last event,
\* whether some UI event was not immediately preceded by a focus
\* verification, and whether some UI event was immediately followed by
\* something other than a focus verification.
ObserveEvents(o, evs) ==
    LET full == <<o.lastEv>> \o evs
        n == Len(full)
    IN [o EXCEPT
          !.lastEv = full[n],
          !.preGap = o.preGap \/ \E i \in 2..n : IsUiEvent(full[i]) /\ full[i-1] # "verify",
          !.postGap = o.postGap \/ \E i \in 1..(n-1) : IsUiEvent(full[i]) /\ full[i+1] # "verify",
          !.uiDone = o.uiDone \/ \E i \in 2..n : IsUiEvent(full[i])]

----------------------------------------------------------------------------
(* App-launch orchestrator: src/automation/flow/app-launch.ts              *)

config == <<cmd, cfgShortcuts, app, flow, points, query>>

typing == <<stepIndex, typed, shots>>

disk == <<file, snapshots, clock, job>>

store == <<rawProfile, loaded, reloaded>>

engine == <<catalog, ordering, wf, prompt, trace>>

\* Everything the device-driving code leaves alone.
\* The coordinate conversions and the focus loop checked on their own.
host == <<geo, focus, update>>

offline == <<disk, store, engine, host>>

launchState == <<attempts, attemptNo, usedSearchShortcut, lastError>>

buildLaunchAttempts(useShortcuts) ==
    LET firstAttempt ==
            IF useShortcuts
            THEN [number |-> 1, mode |-> "shortcut-preferred", preferMirrorShortcuts |-> TRUE]
            ELSE [number |-> 1, mode |-> "tap-only", preferMirrorShortcuts |-> FALSE]
    IN IF firstAttempt.preferMirrorShortcuts
       THEN <<firstAttempt, [number |-> 2, mode |-> "tap-only", preferMirrorShortcuts |-> FALSE]>>
       ELSE <<firstAttempt>>

\* Variant without the forced retry for flows that submit with Enter.
shouldForceDeterministicRetry_TapResultOnly(f, attempt, usedShortcut) ==
    IF ~attempt.preferMirrorShortcuts THEN FALSE
    ELSE IF ~usedShortcut THEN FALSE
    ELSE IF f.launch = "searchIcon" THEN FALSE
    ELSE f.searchSubmitMode = "tapResult"

shouldForceDeterministicRetry(f, attempt, usedShortcut) ==
    IF ~attempt.preferMirrorShortcuts THEN FALSE
    ELSE IF ~usedShortcut THEN FALSE
    ELSE IF f.launch = "searchIcon" THEN FALSE
    ELSE f.searchSubmitMode = "enter"

\* getActionPoint(session, app, action): the calibrated point, if any.
getActionPoint(action) == action \in points

\* The point runSearchEntry taps to open Search.
searchPoint == IF getActionPoint("searchIcon") THEN "searchIcon" ELSE "homeSearchButton"

\* The point openAppFromHome taps to open the app.
homeIconPoint == IF getActionPoint("homeIcon") THEN "homeIcon" ELSE "hardCodedIcon"

\* Mode of the attempt that is running, or the phase outside the attempts.
CurrentMode == IF phase = "attempt" THEN attempts[attemptNo].mode ELSE phase

CurrentAttempt == IF phase = "attempt" THEN attemptNo ELSE 0

HomeLabels == {"ohFocus", "ohIconFocus", "ohIconTap"}

\* The running call chain is inside openAppFromHome.
InOpenAppFromHome == pc \in HomeLabels \/ \E i \in 1..Len(stack) : stack[i] \in HomeLabels

\* A host keystroke as the observer records it.
KeyRecord(key, modifiers) ==
    [key |-> key, modifiers |-> modifiers, mode |-> CurrentMode, attempt |-> CurrentAttempt]

ObserveKeystroke(o, key, modifiers, outcome) ==
    LET o1 == ObserveEvents(o, KeystrokeEvents(outcome))
    IN IF outcome \in {"sent", "throwAfter"}
       THEN [o1 EXCEPT !.lastKey = KeyRecord(key, modifiers)]
       ELSE o1

ObserveClick(o, target, outcome) ==
    LET o1 == ObserveEvents(o, ClickEvents(outcome))
    IN IF outcome = "clicked"
       THEN [o1 EXCEPT !.lastTap = [target |-> target, attempt |-> CurrentAttempt]]
       ELSE o1

\* Variant without the try block: an exception always leaves the command.
Throw_Uncaught(o) ==
    LET o1 == IF InOpenAppFromHome THEN [o EXCEPT !.homeFailures = @ + 1] ELSE o
    IN /\ stack' = <<>>
       /\ pc' = "done"
       /\ obs' = IF phase = "fallback"
                 THEN [o1 EXCEPT !.fallbackOutcome = "raised"]
                 ELSE IF phase = "attempt"
                 THEN [o1 EXCEPT !.raised = @ \cup {attemptNo},
                                 !.unsettled = TRUE]
                 ELSE o1
       /\ result' = "error"
       /\ UNCHANGED phase

\* An exception unwinds to the try block of the attempt loop when one is
\* active (lines 361-380), otherwise out of the running command.
Throw(o) ==
    LET o1 == IF InOpenAppFromHome THEN [o EXCEPT !.homeFailures = @ + 1] ELSE o
    IN /\ stack' = <<>>
       /\ IF phase = "attempt"
          THEN /\ pc' = "wfCaught"
               /\ obs' = [o1 EXCEPT !.raised = @ \cup {attemptNo},
                                     !.unsettled = TRUE]
               /\ UNCHANGED <<result, phase>>
          ELSE /\ pc' = "done"
               /\ obs' = IF phase = "fallback"
                         THEN [o1 EXCEPT !.fallbackOutcome = "raised"] ELSE o1
               /\ result' = "error"
               /\ UNCHANGED phase

\* Normal completion of a step: continue at `next`.
Goto(next, o) ==
    /\ pc' = next
    /\ obs' = o
    /\ UNCHANGED <<stack, result, phase>>

\* Call a function: continue at `entry`, come back at `back`.
Call(entry, back, o) ==
    /\ pc' = entry
    /\ stack' = <<back>> \o stack
    /\ obs' = o
    /\ UNCHANGED <<result, phase>>

\* Return to the caller.
Return(o) ==
    /\ pc' = Head(stack)
    /\ stack' = Tail(stack)
    /\ obs' = o
    /\ UNCHANGED <<result, phase>>

\* sleepAfterAction (automation/timing.ts, lines 7-14): the settle step
\* between navigation steps.  With delaySec <= 0 the wait itself is skipped
\* (lines 8-11); the call is made, and recorded here, either way.
sleepAfterAction(o, label) ==
    [o EXCEPT !.unsettled = FALSE, !.settles = @ \cup {label}]

\* The profile file parses and validates.
ProfileLoads == file # <<>> /\ file[1].parses

\* getCalibrationProfile (flow/profile-store, lines 185-210) called from the
\* launch code: a file that is missing or does not load dies with
\* createFallbackCalibrationErrorMessage or the validator's message.
ProfileLookupFails(o) == Throw([o EXCEPT !.failure = "missingOrInvalidProfile"])

\* openAppBySearchWithFallback, lines 354-358: build the attempts, enter the loop.
LaunchStart ==
    /\ pc = "launchStart"
    /\ attempts' = buildLaunchAttempts(cfgShortcuts)
    /\ attemptNo' = 1
    /\ lastError' = FALSE
    /\ pc' = "attemptBegin"
    /\ UNCHANGED <<config, offline, typing, stack, phase, usedSearchShortcut, result, obs>>

\* One iteration of the for-loop enters the try block and openAppBySearch.
AttemptBegin ==
    /\ pc = "attemptBegin"
    /\ phase' = "attempt"
    /\ usedSearchShortcut' = FALSE
    /\ pc' = "seInitialFocus"
    /\ obs' = [obs EXCEPT !.started = @ \cup {attemptNo},
                           !.beganUnsettled = @ \/ obs.unsettled,
                           !.entered = FALSE, !.typedName = FALSE]
    /\ UNCHANGED <<config, offline, typing, stack, attempts, attemptNo, lastError, result>>

\* runSearchEntry, lines 247-266: the search point is looked up (the home
\* search button comes from the profile when the app has no searchIcon
\* point), then the initial focus, then Home (or the icon path).
RunSearchEntryInitialFocus ==
    /\ pc = "seInitialFocus"
    /\ IF ~getActionPoint("searchIcon") /\ ~ProfileLoads
       THEN ProfileLookupFails(obs)
       ELSE \E o \in EnsureOutcomes :
              LET o1 == ObserveEvents(obs, <<"verify">>)
              IN IF o # "front" THEN Throw(o1)
                 ELSE IF flow.launch = "legacyHomeIconOnly"
                      THEN Call("ohFocus", "abSubmit",
                                [o1 EXCEPT !.homeCalls = @ + 1])
                      ELSE Call("ghShortcut", "seSearchShortcut", o1)
    /\ UNCHANGED <<config, offline, typing, attempts, attemptNo, usedSearchShortcut, lastError>>

\* goHomeBestEffort, lines 194-204: Command+1 when shortcuts are enabled.
GoHomeShortcut ==
    /\ pc = "ghShortcut"
    /\ IF cfgShortcuts
       THEN \E o \in KeystrokeOutcomes :
              LET o1 == ObserveKeystroke(obs, MIRROR_HOME_SHORTCUT_KEY, "command", o)
              IN IF ~KeystrokeReturns(o) THEN Throw(o1)
                 ELSE IF KeystrokeResult(o) THEN Return(o1)
                 ELSE Goto("ghLegacyKey", o1)
       ELSE Goto("ghLegacyKey", obs)
    /\ UNCHANGED <<config, offline, typing, attempts, attemptNo, usedSearchShortcut, lastError>>

\* goHomeBestEffort, lines 205-211: Command+H, result only logged.
GoHomeLegacyKey ==
    /\ pc = "ghLegacyKey"
    /\ \E o \in KeystrokeOutcomes :
         LET o1 == ObserveKeystroke(obs, "h", "command", o)
         IN IF ~KeystrokeReturns(o) THEN Throw(o1) ELSE Goto("ghSwipe", o1)
    /\ UNCHANGED <<config, offline, typing, attempts, attemptNo, usedSearchShortcut, lastError>>

\* goHomeBestEffort, lines 212-215: swipe up.
GoHomeSwipe ==
    /\ pc = "ghSwipe"
    /\ \E o \in DragOutcomes :
         LET o1 == ObserveEvents(obs, DragEvents(o))
         IN IF o = "dragged" THEN Return(o1) ELSE Throw(o1)
    /\ UNCHANGED <<config, offline, typing, attempts, attemptNo, usedSearchShortcut, lastError>>

\* openAppFromHome, lines 218-227: the homeIcon point is looked up in the
\* profile, then focus, then goHomeBestEffort.
OpenAppFromHomeFocus ==
    /\ pc = "ohFocus"
    /\ IF ~ProfileLoads
       THEN ProfileLookupFails(obs)
       ELSE \E o \in EnsureOutcomes :
              LET o1 == ObserveEvents(obs, <<"verify">>)
              IN IF o = "front" THEN Call("ghShortcut", "ohIconFocus", o1) ELSE Throw(o1)
    /\ UNCHANGED <<config, offline, typing, attempts, attemptNo, usedSearchShortcut, lastError>>

\* openAppFromHome, lines 228-230: focus before the icon tap.
OpenAppFromHomeIconFocus ==
    /\ pc = "ohIconFocus"
    /\ \E o \in EnsureOutcomes :
         LET o1 == ObserveEvents(obs, <<"verify">>)
         IN IF o = "front" THEN Goto("ohIconTap", o1) ELSE Throw(o1)
    /\ UNCHANGED <<config, offline, typing, attempts, attemptNo, usedSearchShortcut, lastError>>

\* openAppFromHome, lines 231-239: tap the calibrated or hard-coded icon.
OpenAppFromHomeIconTap ==
    /\ pc = "ohIconTap"
    /\ \E o \in ClickOutcomes :
         LET o1 == ObserveClick(obs, homeIconPoint, o)
         IN IF o = "clicked" THEN Return(o1) ELSE Throw(o1)
    /\ UNCHANGED <<config, offline, typing, attempts, attemptNo, usedSearchShortcut, lastError>>

\* Variant in which a Search shortcut that was not sent ends the attempt.
RunSearchEntryShortcut_NoTapFallback ==
    /\ pc = "seSearchShortcut"
    /\ LET preferMirrorShortcuts == attempts[attemptNo].preferMirrorShortcuts
       IN IF preferMirrorShortcuts /\ flow.launch # "searchIcon"
          THEN \E o \in KeystrokeOutcomes :
                 LET o1 == ObserveKeystroke(obs, MIRROR_SEARCH_SHORTCUT_KEY, "command", o)
                 IN IF ~KeystrokeReturns(o)
                    THEN Throw(o1) /\ UNCHANGED usedSearchShortcut
                    ELSE IF KeystrokeResult(o)
                    THEN /\ Goto("seClear", [o1 EXCEPT !.entered = TRUE])
                         /\ usedSearchShortcut' = TRUE
                    ELSE /\ Throw([o1 EXCEPT !.shortcutRefused = @ \cup {attemptNo}])
                         /\ UNCHANGED usedSearchShortcut
          ELSE Goto("seSearchButton", obs) /\ UNCHANGED usedSearchShortcut
    /\ UNCHANGED <<config, offline, typing, attempts, attemptNo, lastError>>

\* runSearchEntry, lines 268-281: Command+3 when the attempt prefers shortcuts.
RunSearchEntryShortcut ==
    /\ pc = "seSearchShortcut"
    /\ LET preferMirrorShortcuts == attempts[attemptNo].preferMirrorShortcuts
       IN IF preferMirrorShortcuts /\ flow.launch # "searchIcon"
          THEN \E o \in KeystrokeOutcomes :
                 LET o1 == ObserveKeystroke(obs, MIRROR_SEARCH_SHORTCUT_KEY, "command", o)
                 IN IF ~KeystrokeReturns(o)
                    THEN Throw(o1) /\ UNCHANGED usedSearchShortcut
                    ELSE IF KeystrokeResult(o)
                    THEN /\ Goto("seClear", [o1 EXCEPT !.entered = TRUE])
                         /\ usedSearchShortcut' = TRUE
                    ELSE /\ Goto("seSearchButton",
                                 [o1 EXCEPT !.shortcutRefused = @ \cup {attemptNo}])
                         /\ UNCHANGED usedSearchShortcut
          ELSE Goto("seSearchButton", obs) /\ UNCHANGED usedSearchShortcut
    /\ UNCHANGED <<config, offline, typing, attempts, attemptNo, lastError>>

\* runSearchEntry, lines 282-286: focus before tapping Search.
RunSearchEntryButtonFocus ==
    /\ pc = "seSearchButton"
    /\ \E o \in EnsureOutcomes :
         LET o1 == ObserveEvents(obs, <<"verify">>)
         IN IF o = "front" THEN Goto("seSearchTap", o1) ELSE Throw(o1)
    /\ UNCHANGED <<config, offline, typing, attempts, attemptNo, usedSearchShortcut, lastError>>

\* runSearchEntry, lines 287-302: tap the Search point; the searchIcon launch
\* mode returns here.
RunSearchEntryTap ==
    /\ pc = "seSearchTap"
    /\ \E o \in ClickOutcomes :
         LET o1 == ObserveClick(obs, searchPoint, o)
         IN IF o # "clicked" THEN Throw(o1)
            ELSE IF flow.launch = "searchIcon"
                 THEN Goto("abSubmit", [o1 EXCEPT !.entered = TRUE])
            ELSE Goto("seClear", [o1 EXCEPT !.entered = TRUE])
    /\ UNCHANGED <<config, offline, typing, attempts, attemptNo, usedSearchShortcut, lastError>>

\* runSearchEntry, lines 303-305: clear the Search field.
RunSearchEntryClear ==
    /\ pc = "seClear"
    /\ \E o \in ClearOutcomes :
         LET o1 == ObserveEvents(obs, ClearEvents(o))
             o2 == IF o.focus = "front" /\ o.keystroke \in {"sent", "throwAfter"}
                   THEN [o1 EXCEPT !.lastKey = KeyRecord("a", "command")]
                   ELSE o1
         IN IF ClearReturns(o) THEN Goto("seType", o2) ELSE Throw(o2)
    /\ UNCHANGED <<config, offline, typing, attempts, attemptNo, usedSearchShortcut, lastError>>

\* runSearchEntry, lines 306-310: type the app name.
RunSearchEntryType ==
    /\ pc = "seType"
    /\ \E o \in TypeOutcomes(APP_LAUNCH_QUERY[app]) :
         LET o1 == ObserveEvents(obs, TypeEvents(o, APP_LAUNCH_QUERY[app]))
         IN IF TypeReturns(o, APP_LAUNCH_QUERY[app])
            THEN Goto("abSubmit", [o1 EXCEPT !.typedName = TRUE])
            ELSE Throw(o1)
    /\ UNCHANGED <<config, offline, typing, attempts, attemptNo, usedSearchShortcut, lastError>>

\* The submission (Enter or the result tap) went out in this attempt.
Submitted(o) ==
    [o EXCEPT !.submitted = @ \cup {attemptNo},
              !.submittedEarly = @ \/ ~(o.entered /\ o.typedName)]

\* openAppBySearch, lines 326-351: submit the search.
OpenAppBySearchSubmit ==
    /\ pc = "abSubmit"
    /\ CASE flow.launch = "searchIcon" ->
              \E o \in EnsureOutcomes :
                LET o1 == ObserveEvents(obs, <<"verify">>)
                IN IF o = "throw" THEN Throw(o1) ELSE Goto("wfAttemptDone", o1)
         [] flow.launch # "searchIcon" /\ flow.searchSubmitMode = "enter" ->
              \E o \in KeystrokeOutcomes :
                LET o1 == ObserveKeystroke(obs, "return", "", o)
                IN IF KeystrokeReturns(o) /\ KeystrokeResult(o)
                   THEN Goto("wfAttemptDone", Submitted(o1)) ELSE Throw(o1)
         [] flow.launch # "searchIcon" /\ flow.searchSubmitMode = "tapResult" ->
              IF ~ProfileLoads
              THEN ProfileLookupFails(obs)
              ELSE \E o \in ClickOutcomes :
                     LET o1 == ObserveClick(obs, "launchResultTap", o)
                     IN IF o = "clicked"
                        THEN Goto("wfAttemptDone", Submitted(o1)) ELSE Throw(o1)
    /\ UNCHANGED <<config, offline, typing, attempts, attemptNo, usedSearchShortcut, lastError>>

\* openAppBySearchWithFallback, lines 362-371: the attempt returned.
AttemptReturned ==
    /\ pc = "wfAttemptDone"
    /\ stack' = <<>>
    /\ LET attempt == attempts[attemptNo]
           o1 == IF usedSearchShortcut
                 THEN [obs EXCEPT !.completedWithShortcut = @ \cup {attemptNo}]
                 ELSE obs
       IN IF shouldForceDeterministicRetry(flow, attempt, usedSearchShortcut)
             /\ attempt.number = 1 /\ Len(attempts) > 1
          THEN /\ attemptNo' = attemptNo + 1
               /\ pc' = "attemptBegin"
               /\ obs' = sleepAfterAction(o1, "search-launch-deterministic-retry")
               /\ UNCHANGED <<result, phase>>
          ELSE /\ pc' = "launched"
               /\ phase' = "plain"
               /\ obs' = o1
               /\ UNCHANGED <<attemptNo, result>>
    /\ UNCHANGED <<config, offline, typing, attempts, usedSearchShortcut, lastError>>

\* Variant in which the first error leaves the loop for the fallback.
AttemptCaught_FallbackAtOnce ==
    /\ pc = "wfCaught"
    /\ lastError' = TRUE
    /\ pc' = "wfFallback"
    /\ UNCHANGED <<config, offline, typing, stack, phase, attempts, attemptNo,
                   usedSearchShortcut, result, obs>>

\* Variant in which the error of the last attempt is thrown to the caller.
AttemptCaught_RethrowLast ==
    /\ pc = "wfCaught"
    /\ lastError' = TRUE
    /\ IF attemptNo < Len(attempts)
       THEN /\ attemptNo' = attemptNo + 1
            /\ pc' = "attemptBegin"
            /\ obs' = sleepAfterAction(obs, "search-launch-retry-switch")
            /\ UNCHANGED <<result, phase>>
       ELSE /\ pc' = "done"
            /\ result' = "error"
            /\ phase' = "plain"
            /\ UNCHANGED <<attemptNo, obs>>
    /\ UNCHANGED <<config, offline, typing, stack, attempts, usedSearchShortcut>>

\* openAppBySearchWithFallback, lines 372-381: the attempt threw; the
\* retry-switch settle step runs when another attempt follows.
AttemptCaught ==
    /\ pc = "wfCaught"
    /\ lastError' = TRUE
    /\ IF attemptNo < Len(attempts)
       THEN /\ attemptNo' = attemptNo + 1
            /\ pc' = "attemptBegin"
            /\ obs' = sleepAfterAction(obs, "search-launch-retry-switch")
       ELSE /\ pc' = "wfFallback"
            /\ UNCHANGED <<attemptNo, obs>>
    /\ UNCHANGED <<config, offline, typing, stack, phase, attempts, usedSearchShortcut, result>>

\* Variant in which the fallback starts without the fallback-switch step.
HomeFallback_NoSettle ==
    /\ pc = "wfFallback"
    /\ phase' = "fallback"
    /\ pc' = "ohFocus"
    /\ stack' = <<"wfFallbackDone">>
    /\ obs' = [obs EXCEPT !.fallbackCalls = @ + 1, !.homeCalls = @ + 1,
                           !.beganUnsettled = @ \/ obs.unsettled]
    /\ UNCHANGED <<config, offline, typing, attempts, attemptNo, usedSearchShortcut, lastError, result>>
\* openAppBySearchWithFallback, lines 382-389: the fallback-switch settle
\* step, then the home icon fallback.
HomeFallback ==
    /\ pc = "wfFallback"
    /\ phase' = "fallback"
    /\ pc' = "ohFocus"
    /\ stack' = <<"wfFallbackDone">>
    /\ LET o1 == sleepAfterAction(obs, "search-fallback-switch")
       IN obs' = [o1 EXCEPT !.fallbackCalls = @ + 1, !.homeCalls = @ + 1,
                            !.beganUnsettled = @ \/ o1.unsettled]
    /\ UNCHANGED <<config, offline, typing, attempts, attemptNo, usedSearchShortcut, lastError, result>>

\* openAppBySearchWithFallback, line 390: the fallback returned.
HomeFallbackReturned ==
    /\ pc = "wfFallbackDone"
    /\ pc' = "launched"
    /\ phase' = "plain"
    /\ obs' = [obs EXCEPT !.fallbackOutcome = "returned"]
    /\ UNCHANGED <<config, offline, typing, stack, attempts, attemptNo, usedSearchShortcut, lastError, result>>

\* openAppBySearchWithFallback returned to its caller.
LaunchReturned ==
    /\ pc = "launched"
    /\ cmd = "launch"
    /\ pc' = "done"
    /\ result' = "success"
    /\ phase' = "plain"
    /\ UNCHANGED <<config, offline, typing, stack, attempts, attemptNo, usedSearchShortcut, lastError, obs>>

LaunchNext ==
    \/ LaunchStart
    \/ AttemptBegin
    \/ RunSearchEntryInitialFocus
    \/ GoHomeShortcut
    \/ GoHomeLegacyKey
    \/ GoHomeSwipe
    \/ OpenAppFromHomeFocus
    \/ OpenAppFromHomeIconFocus
    \/ OpenAppFromHomeIconTap
    \/ RunSearchEntryShortcut
    \/ RunSearchEntryButtonFocus
    \/ RunSearchEntryTap
    \/ RunSearchEntryClear
    \/ RunSearchEntryType
    \/ OpenAppBySearchSubmit
    \/ AttemptReturned
    \/ AttemptCaught
    \/ HomeFallback
    \/ HomeFallbackReturned

NoJob ==
    [kind |-> "none", target |-> ActionId("", ""), existing |-> <<>>, point |-> "",
     diagnostic |-> <<>>]

\* No profile has been handed to the validator yet.
NotLoaded == [error |-> <<"not loaded">>, profile |-> <<>>]

InitDisk ==
    /\ file = <<>>
    /\ snapshots = {}
    /\ clock = 0
    /\ job = NoJob

\* No conversion has been asked for.
NoGeometry ==
    [stage |-> "none", bounds |-> <<>>, rel |-> <<>>, region |-> <<>>,
     error |-> "", abs |-> <<>>, back |-> <<>>, steps |-> <<>>, clicked |-> <<>>]

\* ensureMirrorFrontmost has not been called.
NoFocus ==
    [stage |-> "none", attempt |-> 0, seen |-> <<>>, activations |-> 0,
     returned |-> "none"]

\* updateActionPointInProfile has not been called.
NoUpdate ==
    [stage |-> "none", profile |-> <<>>, target |-> ActionId("", ""), point |-> "",
     now |-> 0, argument |-> <<>>, returned |-> <<>>]

InitHost ==
    /\ geo = NoGeometry
    /\ focus = NoFocus
    /\ update = NoUpdate

InitStore ==
    /\ rawProfile = <<>>
    /\ loaded = NotLoaded
    /\ reloaded = NotLoaded

InitDevice ==
    /\ InitHost
    /\ stack = <<>>
    /\ phase = "plain"
    /\ attempts = <<>>
    /\ attemptNo = 0
    /\ usedSearchShortcut = FALSE
    /\ lastError = FALSE
    /\ result = "running"
    /\ obs = InitObs
    /\ stepIndex = 0
    /\ typed = <<>>
    /\ shots = <<>>

\* Calibrate-all has not been asked for.
NotOrdered == [error |-> <<"not ordered">>, ordered |-> <<>>]

\* runCalibrateAllWorkflow's locals before its first step, and the locals of
\* debugCalibrateAll (operatorVerdict, the failure reports written). window
\* is where the iPhone Mirroring window is, contentRegion the window position
\* whose bounds the workflow's contentRegion was computed from, conversions
\* the coordinate conversions made: the region used and the window's position
\* at that moment.
NoWorkflow ==
    [step |-> 0,
     context |-> [currentApp |-> "", currentContext |-> ""],
     homeSearchButton |-> "",
     merged |-> {},
     error |-> <<>>,
     awaiting |-> "",
     operatorVerdict |-> "not-recorded",
     interrupted |-> FALSE,
     renames |-> 0,
     writes |-> 0,
     reports |-> 0,
     topLevel |-> "",
     window |-> "first",
     contentRegion |-> "",
     conversions |-> {},
     enterAsked |-> {}, verdictAsked |-> {}, delegated |-> {},
     transitions |-> {}]

\* No prompt has been opened.
NoPrompt ==
    [kind |-> "none", listener |-> "none", timer |-> "none", settled |-> FALSE,
     outcome |-> "pending", answer |-> "", sample |-> "", line |-> FALSE]

InitWorkflow ==
    /\ wf = NoWorkflow
    /\ prompt = NoPrompt
    /\ trace = <<>>

InitEngine ==
    /\ catalog = <<>>
    /\ ordering = NotOrdered
    /\ InitWorkflow

InitIdle ==
    /\ InitDisk
    /\ InitStore
    /\ InitEngine
    /\ InitDevice

\* Bound on the profile files found on disk before the first command: none,
\* one that loads, one that does not.
InitialProfiles ==
    {[parses |-> ok, generatedAt |-> 0, homeSearchButton |-> "p",
      appSearchSteps |-> "custom", appActionPoints |-> {}] : ok \in BOOLEAN}

\* A command that reads the profile starts with any of these files.
InitProfileOnDisk ==
    /\ file \in {<<>>} \union {<<p>> : p \in InitialProfiles}
    /\ snapshots = {}
    /\ clock = 0
    /\ job = NoJob
    /\ InitStore
    /\ InitEngine
    /\ InitDevice

\* Bound on the calibrated action points drawn for the launched app.
LaunchPointSets == SUBSET {"searchIcon", "homeIcon"}

\* Bound on the apps drawn for a launch on its own: the launch code uses the
\* app only for the name it types and the icon it taps.
LaunchApps == {"chrome"}

Init ==
    /\ cmd = "launch"
    /\ cfgShortcuts \in BOOLEAN
    /\ app \in LaunchApps
    /\ flow \in AppFlowShapes(app)
    /\ points \in LaunchPointSets
    /\ query = <<>>
    /\ pc = "launchStart"
    /\ InitProfileOnDisk

Next == LaunchNext \/ LaunchReturned

Spec == Init /\ [][Next]_vars

----------------------------------------------------------------------------
(* Properties of the app-launch orchestrator                               *)

AllAttempts == {attempts[i].number : i \in 1..Len(attempts)}

LaunchFinished == cmd = "launch" /\ pc = "done"

\* C1: when attempt 1 is shortcut-preferred, its search entry used the
\* Search shortcut and the flow submits with Enter, the launch never
\* returns to its caller without a second, tap-only attempt having started,
\* even though attempt 1 completed without error.
C1_ShortcutEnterForcesSecondAttempt ==
    ( /\ pc \in {"launched", "done"}
      /\ Len(attempts) >= 1
      /\ attempts[1].mode = "shortcut-preferred"
      /\ 1 \in obs.completedWithShortcut
      /\ flow.searchSubmitMode = "enter" )
    => ( /\ 2 \in obs.started
         /\ Len(attempts) = 2
         /\ attempts[2].mode = "tap-only" )

C1_Witness ==
    /\ pc = "done" /\ result = "success"
    /\ 1 \in obs.completedWithShortcut
    /\ 1 \notin obs.raised
    /\ flow.searchSubmitMode = "enter"
    /\ 2 \in obs.started

\* C2: if every search attempt raised, the home-icon fallback was called
\* exactly once and the launch's outcome is the outcome of that call:
\* success if it returned, its error if it raised.
C2_FallbackOnceAndSurfaced ==
    (LaunchFinished /\ obs.raised = AllAttempts)
    => ( /\ obs.fallbackCalls = 1
         /\ obs.fallbackOutcome \in {"returned", "raised"}
         /\ (result = "success") <=> (obs.fallbackOutcome = "returned")
         /\ (result = "error") <=> (obs.fallbackOutcome = "raised")
         /\ (flow.launch # "legacyHomeIconOnly" => obs.homeCalls = 1) )

C2_Witness ==
    /\ LaunchFinished /\ obs.raised = {1, 2}
    /\ obs.fallbackCalls = 1 /\ result = "error"

\* C3: an error raised inside a search attempt never leaves
\* openAppBySearchWithFallback: the launch stays running, control reaches
\* the catch block, and from there the only continuation is the next
\* attempt or, when none remains, the home-icon fallback.
C3_AttemptErrorsAreContained ==
    [][ /\ (obs'.raised # obs.raised) => (pc' = "wfCaught" /\ result' = "running")
        /\ (phase = "attempt" /\ pc' = "done") => FALSE
        /\ (pc = "wfCaught") =>
              \/ (attemptNo < Len(attempts) /\ pc' = "attemptBegin" /\ attemptNo' = attemptNo + 1)
              \/ (attemptNo = Len(attempts) /\ pc' = "wfFallback")
        /\ (result' = "error") => (phase' # "attempt") ]_vars

C3_Witness ==
    /\ obs.raised = {1, 2}
    /\ obs.started = {1, 2}
    /\ obs.fallbackCalls = 1
    /\ result = "running"

\* C5: during a tap-only attempt neither the mirroring Home shortcut
\* (Command+1) nor the mirroring Search shortcut (Command+3) is sent.
C5_TapOnlySendsNoMirrorShortcut ==
    ~ ( /\ obs.lastKey.mode = "tap-only"
        /\ obs.lastKey.modifiers = "command"
        /\ obs.lastKey.key \in {MIRROR_HOME_SHORTCUT_KEY, MIRROR_SEARCH_SHORTCUT_KEY} )

\* C6: in a shortcut-preferred attempt, when sendHostKeystroke reports that
\* the Search shortcut was not sent, the same attempt goes on to the Search
\* icon tap; that tap goes to the calibrated searchIcon point when the
\* profile has one and to the home search button otherwise.
C6_ShortcutFailureFallsBackToTap ==
    [][ /\ (obs'.shortcutRefused # obs.shortcutRefused) =>
              /\ attempts[attemptNo].mode = "shortcut-preferred"
              /\ pc' = "seSearchButton"
              /\ phase' = "attempt" /\ attemptNo' = attemptNo
              /\ obs'.raised = obs.raised
        /\ (pc = "seSearchTap" /\ pc' \in {"seClear", "abSubmit"}) =>
              /\ obs'.lastTap.attempt = attemptNo
              /\ obs'.lastTap.target =
                   IF "searchIcon" \in points THEN "searchIcon" ELSE "homeSearchButton" ]_vars

C6_Witness ==
    /\ phase = "attempt" /\ attemptNo = 1
    /\ attempts[1].mode = "shortcut-preferred"
    /\ 1 \in obs.shortcutRefused
    /\ pc = "seClear"
    /\ obs.lastTap = [target |-> "homeSearchButton", attempt |-> 1]

\* C7: every UI-affecting action of a launch (tap, drag, keystroke, typed
\* character) is immediately preceded and immediately followed by a
\* verification that the mirror host is frontmost.
C7_FocusVerifiedAroundEveryUiAction ==
    ~obs.preGap /\ ~obs.postGap

\* C8: with a legacyHomeIconOnly flow, a failure of the home-icon path ends
\* the launch in failure: no further attempt and no fallback is run.
C8_LegacyHomeIconHasNoFallback ==
    (flow.launch = "legacyHomeIconOnly" /\ obs.homeFailures >= 1)
    => ( /\ obs.started \subseteq {1}
         /\ obs.fallbackCalls = 0
         /\ result # "success" )

----------------------------------------------------------------------------
(* Per-app capture flow: src/automation/flow/capture.ts runAppFlow and the *)
(* post-launch helpers of app-launch.ts                                    *)

isActionRequiredForCapture(a, action, f) ==
    IF ~HasActionDefinition(a, action) THEN FALSE
    ELSE IF getActionDefinition(a, action).requiredForCapture THEN TRUE
    ELSE ActionId(a, action) \in f.requiredCalibrationForCapture

\* captureActionPoint, lines 127-155: tap the calibrated point (returns
\* true, continue at onUsed), else the definition's fallback taps, else die
\* when the point is required, else skip (returns false, continue at onUnused).
captureActionPoint(a, action, f, required, onUsed, onUnused) ==
    IF getActionPoint(action)
    THEN \E o \in ClickOutcomes :
           LET o1 == ObserveClick(obs, action, o)
           IN IF o = "clicked" THEN Goto(onUsed, o1) ELSE Throw(o1)
    ELSE IF HasActionDefinition(a, action) /\ getActionDefinition(a, action).fallbackTapSteps
    THEN \E o \in TapSequenceOutcomes(SearchStepCount[a]) :
           LET o1 == ObserveEvents([obs EXCEPT !.tapSteps = Append(@, "definition.fallbackTapSteps")],
                                   TapSequenceEvents(o, SearchStepCount[a]))
           IN IF TapSequenceReturns(o, SearchStepCount[a]) THEN Goto(onUnused, o1) ELSE Throw(o1)
    ELSE IF required /\ isActionRequiredForCapture(a, action, f)
    THEN Throw([obs EXCEPT !.failure = "missingRequiredActionPoint"])
    ELSE Goto(onUnused, obs)

\* runAppFlow, lines 21-37: focus the mirror host.
RunAppFlowFocus ==
    /\ pc = "rfStart"
    /\ \E activated \in BOOLEAN, o \in EnsureOutcomes :
         IF ~activated THEN Throw(obs)
         ELSE LET o1 == ObserveEvents(obs, <<"verify">>)
              IN IF o = "front" THEN Goto("rfProfile", o1) ELSE Throw(o1)
    /\ UNCHANGED <<config, offline, typing, attempts, attemptNo, usedSearchShortcut, lastError>>

\* runAppFlow, line 38: getCalibrationProfile dies when the file is missing
\* or invalid.
\* Variant that leaves the profile to be loaded when it is first needed.
RunAppFlowLoadProfile_Deferred ==
    /\ pc = "rfProfile"
    /\ Goto("launchStart", obs)
    /\ UNCHANGED <<config, offline, typing, attempts, attemptNo, usedSearchShortcut, lastError>>
RunAppFlowLoadProfile ==
    /\ pc = "rfProfile"
    /\ IF ProfileLoads THEN Goto("launchStart", obs)
       ELSE Throw([obs EXCEPT !.failure = "missingOrInvalidProfile"])
    /\ UNCHANGED <<config, offline, typing, attempts, attemptNo, usedSearchShortcut, lastError>>

\* runAppFlow, lines 39-40: the launch returned, start the post-launch loop.
RunAppFlowLaunched ==
    /\ pc = "launched"
    /\ cmd = "capture"
    /\ pc' = "rfPostLaunch"
    /\ stepIndex' = 1
    /\ phase' = "plain"
    /\ UNCHANGED <<config, offline, typed, shots, stack, attempts, attemptNo,
                   usedSearchShortcut, lastError, result, obs>>

\* runFlowPostLaunchActions, lines 162-171: one iteration of the loop.
RunFlowPostLaunchAction ==
    /\ pc = "rfPostLaunch"
    /\ IF stepIndex > Len(flow.postLaunchActions)
       THEN Goto("rfPlacement", obs) /\ UNCHANGED stepIndex
       ELSE LET parsed == flow.postLaunchActions[stepIndex]
            IN /\ IF parsed.app # app THEN Goto("rfPostLaunch", obs)
                  ELSE captureActionPoint(app, parsed.action, flow,
                          isActionRequiredForCapture(app, parsed.action, flow),
                          "rfPostLaunch", "rfPostLaunch")
               /\ stepIndex' = stepIndex + 1
    /\ UNCHANGED <<config, offline, typed, shots, attempts, attemptNo, usedSearchShortcut, lastError>>

\* runAppSearchPlacement, lines 179-188: the calibrated in-app search point.
RunAppSearchPlacement ==
    /\ pc = "rfPlacement"
    /\ IF flow.inAppSearchPoint # ""
       THEN captureActionPoint(app, flow.inAppSearchPoint, flow,
                isActionRequiredForCapture(app, flow.inAppSearchPoint, flow),
                "rfClear", "rfPlacementFallback")
       ELSE Goto("rfPlacementFallback", obs)
    /\ UNCHANGED <<config, offline, typing, attempts, attemptNo, usedSearchShortcut, lastError>>

\* getFlowSearchSteps, lines 84-94: the flow's own fallbackSearchSteps when
\* it has them, else the profile's appSearchSteps for the app.
getFlowSearchSteps(f) ==
    IF f.fallbackSearchSteps THEN "flow.fallbackSearchSteps" ELSE "profile.appSearchSteps"

\* runAppSearchPlacement, lines 189-191: the steps of getFlowSearchSteps are
\* tapped.
RunAppSearchPlacementFallback ==
    /\ pc = "rfPlacementFallback"
    /\ \E o \in TapSequenceOutcomes(SearchStepCount[app]) :
         LET o1 == ObserveEvents([obs EXCEPT !.tapSteps = Append(@, getFlowSearchSteps(flow))],
                                 TapSequenceEvents(o, SearchStepCount[app]))
         IN IF TapSequenceReturns(o, SearchStepCount[app]) THEN Goto("rfClear", o1) ELSE Throw(o1)
    /\ UNCHANGED <<config, offline, typing, attempts, attemptNo, usedSearchShortcut, lastError>>

\* runAppFlow, line 42: clear the app's search field.
RunAppFlowClear ==
    /\ pc = "rfClear"
    /\ \E o \in ClearOutcomes :
         LET o1 == ObserveEvents(obs, ClearEvents(o))
         IN IF ClearReturns(o) THEN Goto("tcStart", o1) ELSE Throw(o1)
    /\ UNCHANGED <<config, offline, typing, attempts, attemptNo, usedSearchShortcut, lastError>>

----------------------------------------------------------------------------
(* typeAndCapturePerChar: automation/interaction, lines 127-147            *)

\* hostScreenshot: screencapture wrote the file, or died.
ScreenshotOutcomes == {"written", "failed"}

\* Variant without the screenshot of the empty field.
TypeCaptureEmptyShot_Skipped ==
    /\ pc = "tcStart"
    /\ stepIndex' = 0
    /\ Goto("tcLoop", obs)
    /\ UNCHANGED <<config, offline, typed, shots, launchState>>

\* Lines 134-136: the "00_empty" screenshot before the loop.
TypeCaptureEmptyShot ==
    /\ pc = "tcStart"
    /\ \E o \in ScreenshotOutcomes :
         IF o = "written"
         THEN /\ shots' = Append(shots, typed)
              /\ stepIndex' = 0
              /\ Goto("tcLoop", obs)
         ELSE Throw(obs) /\ UNCHANGED <<shots, stepIndex>>
    /\ UNCHANGED <<config, offline, typed, launchState>>

\* Lines 137-140: loop test, then the focus check of the iteration.
TypeCaptureFocus ==
    /\ pc = "tcLoop"
    /\ IF stepIndex < Len(query)
       THEN \E o \in EnsureOutcomes :
              LET o1 == ObserveEvents(obs, <<"verify">>)
              IN /\ IF o = "front" THEN Goto("tcType", o1) ELSE Throw(o1)
                 /\ UNCHANGED result
       ELSE /\ pc' = "done"
            /\ result' = "success"
            /\ UNCHANGED <<stack, phase, obs>>
    /\ UNCHANGED <<config, offline, typing, launchState>>

\* Lines 141-143: type query.charAt(index).
TypeCaptureChar ==
    /\ pc = "tcType"
    /\ \E sent \in BOOLEAN :
         IF sent
         THEN /\ typed' = Append(typed, query[stepIndex + 1])
              /\ Goto("tcShot", ObserveEvents(obs, <<"char">>))
         ELSE Throw(obs) /\ UNCHANGED typed
    /\ UNCHANGED <<config, offline, stepIndex, shots, launchState>>

\* Lines 144-146: the numbered screenshot, then index += 1.
TypeCaptureShot ==
    /\ pc = "tcShot"
    /\ \E o \in ScreenshotOutcomes :
         IF o = "written"
         THEN /\ shots' = Append(shots, typed)
              /\ stepIndex' = stepIndex + 1
              /\ Goto("tcLoop", obs)
         ELSE Throw(obs) /\ UNCHANGED <<shots, stepIndex>>
    /\ UNCHANGED <<config, offline, typed, launchState>>

TypeCaptureNext ==
    \/ TypeCaptureEmptyShot
    \/ TypeCaptureFocus
    \/ TypeCaptureChar
    \/ TypeCaptureShot

\* Bounds on the queries drawn.
QueryAlphabet == {"a", "b"}

MaxQueryLen == 3

CaptureQueryLen == 1

Queries == UNION {[1..n -> QueryAlphabet] : n \in 0..MaxQueryLen}

\* typeAndCapturePerChar called on its own with any query.
InitType ==
    /\ cmd = "type"
    /\ cfgShortcuts = TRUE
    /\ app \in SUPPORTED_APPS
    /\ flow = APP_FLOW_DEFINITIONS[app]
    /\ points = {}
    /\ query \in Queries
    /\ pc = "tcStart"
    /\ InitIdle

SpecType == InitType /\ [][TypeCaptureNext]_vars

\* Bound on the calibrated points drawn for a capture run: the points used
\* after the launch (the launch's own points vary under Spec).
CapturePoints(a) == ActionsOfApp(a) \ {"searchIcon", "homeIcon"}

\* runAppFlow for one app of a capture run (runCaptureFlow rejects an empty
\* query), with the shipped flow definitions and any calibrated points.
InitCapture ==
    /\ cmd = "capture"
    /\ cfgShortcuts \in BOOLEAN
    /\ app \in SUPPORTED_APPS
    /\ flow = APP_FLOW_DEFINITIONS[app]
    /\ points \in SUBSET CapturePoints(app)
    /\ query \in [1..CaptureQueryLen -> QueryAlphabet]
    /\ pc = "rfStart"
    /\ InitProfileOnDisk

CaptureNext ==
    \/ RunAppFlowFocus
    \/ RunAppFlowLoadProfile
    \/ LaunchNext
    \/ RunAppFlowLaunched
    \/ RunFlowPostLaunchAction
    \/ RunAppSearchPlacement
    \/ RunAppSearchPlacementFallback
    \/ RunAppFlowClear
    \/ TypeCaptureNext

SpecCapture == InitCapture /\ [][CaptureNext]_vars

----------------------------------------------------------------------------
(* Properties of the capture flow                                          *)

\* C4: for a query of n characters typeAndCapturePerChar takes n+1
\* screenshots in order: the first before any character is typed, and the
\* (k+1)-th after exactly the first k characters have been typed.
C4_OneShotPerTypedPrefix ==
    /\ \A k \in 1..Len(shots) : shots[k] = SubSeq(query, 1, k - 1)
    /\ typed = SubSeq(query, 1, Len(typed))
    /\ Len(typed) <= Len(shots)
    /\ Len(shots) <= Len(typed) + 1
    /\ (pc = "tcType" => Len(shots) = Len(typed) + 1)
    /\ (pc = "done" /\ result = "success") => Len(shots) = Len(query) + 1

C4_Witness ==
    /\ pc = "done" /\ result = "success"
    /\ Len(query) = 3
    /\ shots = <<SubSeq(query, 1, 0), SubSeq(query, 1, 1), SubSeq(query, 1, 2), query>>

\* C9: a capture run that fails because a calibration point the flow
\* declares mandatory is missing fails before any launch or navigation
\* action for that app was performed.
C9_MissingRequiredPointFailsBeforeLaunch ==
    (obs.failure = "missingRequiredActionPoint")
    => (~obs.uiDone /\ obs.started = {} /\ obs.fallbackCalls = 0)

----------------------------------------------------------------------------
(* The calibration commands and the profile file                           *)

\* Bound on the points a user can capture with the mouse.
CapturedPoints == {"p", "q"}

\* Bound on the number of calibration commands run one after another; each
\* runs at a later wall-clock time than the one before.
MaxClock == 3

\* Bound on the targets given to --calibrate-action: two catalogued actions
\* and one the catalog does not know.
CalibrateTargets ==
    {ActionId("chrome", "searchIcon"), ActionId("chrome", "ellipsis"),
     ActionId("tiktok", "ellipsis")}

\* `{...profile, generatedAt, points.appActionPoints[app][action] = point}`.
\* Variant without the spread of the app's other action points.
updateActionPointInProfile_DropsAppActions(profile, target, point, now) ==
    [profile EXCEPT
        !.generatedAt = now,
        !.appActionPoints =
            {e \in profile.appActionPoints : e.id.app # target.app}
                \union {[id |-> target, point |-> point]}]
updateActionPointInProfile(profile, target, point, now) ==
    [profile EXCEPT
        !.generatedAt = now,
        !.appActionPoints =
            {e \in profile.appActionPoints : e.id # target}
                \union {[id |-> target, point |-> point]}]

\* undefined (<<>>) when the file is absent or does not load.
getExistingCalibrationProfile == IF ProfileLoads THEN file ELSE <<>>

\* The profile calibrateMode builds from the captured home search button and
\* the search steps and action points of the existing profile.
CalibrateModeProfile(j, now) ==
    [parses |-> TRUE,
     generatedAt |-> now,
     homeSearchButton |-> j.point,
     appSearchSteps |->
        IF j.existing = <<>> THEN "default" ELSE j.existing[1].appSearchSteps,
     appActionPoints |->
        IF j.existing = <<>> THEN {} ELSE j.existing[1].appActionPoints]

\* The profile the class's calibrateMode builds: default search steps and no
\* action points.
LegacyCalibrateModeProfile(j, now) ==
    [parses |-> TRUE,
     generatedAt |-> now,
     homeSearchButton |-> j.point,
     appSearchSteps |-> "default",
     appActionPoints |-> {}]

notCalibrating ==
    <<cmd, cfgShortcuts, app, flow, points, query, stack, phase, attempts,
      attemptNo, usedSearchShortcut, lastError, obs, stepIndex, typed, shots,
      store, engine, host>>

\* A calibration command that ends: the process exits.
CommandEnds(outcome) ==
    /\ pc' = "cbIdle"
    /\ job' = NoJob
    /\ result' = outcome

\* calibrateMode up to the mouse prompt; the preflight checks, focusing the
\* mirror and reading its bounds can each die.
CalibrateModeStart ==
    /\ cmd = "calibrate" /\ pc = "cbIdle" /\ clock < MaxClock
    /\ clock' = clock + 1
    /\ \E ready \in BOOLEAN :
        IF ready
        THEN /\ pc' = "cbCapture"
             /\ job' = [NoJob EXCEPT !.kind = "calibrateMode",
                                     !.existing = getExistingCalibrationProfile]
             /\ result' = "running"
        ELSE CommandEnds("error")
    /\ UNCHANGED <<notCalibrating, file, snapshots>>

\* calibrateAction up to the mouse prompt: an action the catalog does not
\* know, or a profile that does not load, dies.
CalibrateActionStart ==
    /\ cmd = "calibrate" /\ pc = "cbIdle" /\ clock < MaxClock
    /\ clock' = clock + 1
    /\ \E target \in CalibrateTargets, ready \in BOOLEAN :
        IF HasActionDefinition(target.app, target.action) /\ ProfileLoads /\ ready
        THEN /\ pc' = "cbCapture"
             /\ job' = [NoJob EXCEPT !.kind = "calibrateAction",
                                     !.target = target,
                                     !.existing = file]
             /\ result' = "running"
        ELSE CommandEnds("error")
    /\ UNCHANGED <<notCalibrating, file, snapshots>>

\* What absToRelWithinRegion dies with for a pointer outside the content
\* region (timing.ts lines 156-165): the label of the point, and the command
\* to run again.
OutsideRegionDiagnostic(label) ==
    [message |-> "is outside the current mirrored content region",
     label |-> label,
     remediation |-> "bun run capture -- --calibrate"]

\* A calibration command that dies with a diagnostic.
CommandDies(diagnostic) ==
    /\ pc' = "cbIdle"
    /\ job' = [NoJob EXCEPT !.diagnostic = <<diagnostic>>]
    /\ result' = "error"

\* capturePointFromMouse: the prompt is canceled or the pointer cannot be
\* read (die), or the pointer is sampled: a point outside the content region
\* dies, a point inside is the captured point.
\* Variant that renames the existing file before the point is converted.
CapturePointFromMouse_BackupFirst ==
    /\ pc = "cbCapture"
    /\ \/ \E point \in CapturedPoints :
            /\ job' = [job EXCEPT !.point = point]
            /\ pc' = "cbBackup"
            /\ UNCHANGED <<result, file, snapshots>>
       \/ /\ CommandDies(OutsideRegionDiagnostic(job.target))
          /\ IF file = <<>>
             THEN UNCHANGED <<file, snapshots>>
             ELSE /\ snapshots' = snapshots \union {[at |-> clock, content |-> file[1]]}
                  /\ file' = <<>>
       \/ CommandEnds("error") /\ UNCHANGED <<file, snapshots>>
    /\ UNCHANGED <<notCalibrating, clock>>
CapturePointFromMouse ==
    /\ pc = "cbCapture"
    /\ \/ \E point \in CapturedPoints :
            /\ job' = [job EXCEPT !.point = point]
            /\ pc' = "cbBackup"
            /\ UNCHANGED <<result, file, snapshots>>
       \/ CommandDies(OutsideRegionDiagnostic(job.target)) /\ UNCHANGED <<file, snapshots>>
       \/ CommandEnds("error") /\ UNCHANGED <<file, snapshots>>
    /\ UNCHANGED <<notCalibrating, clock>>

\* backupExistingCalibrationProfile: an existing file is renamed to the
\* snapshot path of the current time.
BackupExistingCalibrationProfile ==
    /\ pc = "cbBackup"
    /\ IF file = <<>>
       THEN UNCHANGED <<file, snapshots>>
       ELSE /\ snapshots' = snapshots \union {[at |-> clock, content |-> file[1]]}
            /\ file' = <<>>
    /\ pc' = IF job.kind = "calibrateMode" THEN "cbScreenshot" ELSE "cbPersist"
    /\ UNCHANGED <<notCalibrating, clock, job, result>>

\* calibrateMode's screenshotContent between the backup and the write.
CalibrateModeScreenshot ==
    /\ pc = "cbScreenshot"
    /\ \E o \in ScreenshotOutcomes :
        IF o = "written"
        THEN pc' = "cbPersist" /\ UNCHANGED <<job, result>>
        ELSE CommandEnds("error")
    /\ UNCHANGED <<notCalibrating, file, snapshots, clock>>

\* persistCalibrationProfile: writeFileSync of the new profile.
PersistCalibrationProfile ==
    /\ pc = "cbPersist"
    /\ file' = << IF job.kind = "calibrateMode"
                  THEN CalibrateModeProfile(job, clock)
                  ELSE updateActionPointInProfile(job.existing[1], job.target,
                                                  job.point, clock) >>
    /\ CommandEnds("success")
    /\ UNCHANGED <<notCalibrating, snapshots, clock>>

\* AutofillAutomation.calibrateMode up to the mouse prompt.
LegacyCalibrateModeStart ==
    /\ cmd = "calibrate" /\ pc = "cbIdle" /\ clock < MaxClock
    /\ clock' = clock + 1
    /\ \E ready \in BOOLEAN :
        IF ready
        THEN /\ pc' = "lgCapture"
             /\ job' = [NoJob EXCEPT !.kind = "legacyCalibrateMode"]
             /\ result' = "running"
        ELSE CommandEnds("error")
    /\ UNCHANGED <<notCalibrating, file, snapshots>>

\* captureHomeSearchFromMouse.
LegacyCaptureHomeSearch ==
    /\ pc = "lgCapture"
    /\ \/ \E point \in CapturedPoints :
            /\ job' = [job EXCEPT !.point = point]
            /\ pc' = "lgScreenshot"
            /\ UNCHANGED result
       \/ CommandEnds("error")
    /\ UNCHANGED <<notCalibrating, file, snapshots, clock>>

\* AutofillAutomation.calibrateMode's screenshotContent.
LegacyCalibrateModeScreenshot ==
    /\ pc = "lgScreenshot"
    /\ \E o \in ScreenshotOutcomes :
        IF o = "written"
        THEN pc' = "lgWrite" /\ UNCHANGED <<job, result>>
        ELSE CommandEnds("error")
    /\ UNCHANGED <<notCalibrating, file, snapshots, clock>>

\* AutofillAutomation.calibrateMode's writeFileSync(BASE_COORDINATES_FILE).
LegacyCalibrateModeWrite ==
    /\ pc = "lgWrite"
    /\ file' = <<LegacyCalibrateModeProfile(job, clock)>>
    /\ CommandEnds("success")
    /\ UNCHANGED <<notCalibrating, snapshots, clock>>

CalibNext ==
    \/ CalibrateModeStart
    \/ CalibrateActionStart
    \/ CapturePointFromMouse
    \/ BackupExistingCalibrationProfile
    \/ CalibrateModeScreenshot
    \/ PersistCalibrationProfile
    \/ LegacyCalibrateModeStart
    \/ LegacyCaptureHomeSearch
    \/ LegacyCalibrateModeScreenshot
    \/ LegacyCalibrateModeWrite

InitCalib ==
    /\ cmd = "calibrate"
    /\ cfgShortcuts = TRUE
    /\ app = "chrome"
    /\ flow = APP_FLOW_DEFINITIONS[app]
    /\ points = {}
    /\ query = <<>>
    /\ pc = "cbIdle"
    /\ file \in {<<>>} \union {<<p>> : p \in InitialProfiles}
    /\ snapshots = {}
    /\ clock = 0
    /\ job = NoJob
    /\ InitStore
    /\ InitEngine
    /\ InitDevice

SpecCalib == InitCalib /\ [][CalibNext]_vars

----------------------------------------------------------------------------
(* Properties of the profile file                                          *)

\* C10: a profile file that exists on disk is never overwritten in place:
\* the only change made to an existing file is renaming it to a snapshot, so
\* its contents survive there.
C10_ProfileNeverOverwrittenInPlace ==
    [][file # <<>> =>
          \/ file' = file
          \/ file' = <<>> /\ \E snap \in snapshots' : snap.content = file[1]]_vars

----------------------------------------------------------------------------
(* Profile validation: flow/profile-store, lines 21-183 and 233-237        *)

\* Bound on the resolution of numbers: they are fixed point, Unit parts to 1.
Unit == 2

\* A JSON value that is a finite number, and one that is not (a string, null,
\* a missing property).
JsonNumber(n) == [number |-> TRUE, v |-> n]

NotANumber == [number |-> FALSE, v |-> 0]

IsInteger(n) == n % Unit = 0

\* Math.trunc for the numbers that pass the version test (at least 1).
Trunc(n) == (n \div Unit) * Unit

\* Math.max(0, Math.min(1, value)).
clamp01(value) == IF value < 0 THEN 0 ELSE IF value > Unit THEN Unit ELSE value

Valid(profile) == [error |-> <<>>, profile |-> <<profile>>]

\* die(...): the message, as the label it names.
Invalid(label) == [error |-> label, profile |-> <<>>]

\* validateCalibrationValue: typeof value === "number" && isFinite(value).
validateCalibrationValue(value) == value.number

\* The label validateCalibrationPoint dies with, <<>> when it returns.
CalibrationPointError(value, label) ==
    IF value = <<>> THEN <<label>>
    ELSE LET fields == value[1]
         IN IF ~validateCalibrationValue(fields.relX) THEN <<label, "relX">>
            ELSE IF ~validateCalibrationValue(fields.relY) THEN <<label, "relY">>
            ELSE IF fields.absX # <<>> /\ ~validateCalibrationValue(fields.absX[1])
                 THEN <<label, "absX">>
            ELSE IF fields.absY # <<>> /\ ~validateCalibrationValue(fields.absY[1])
                 THEN <<label, "absY">>
            ELSE <<>>

\* The point validateCalibrationPoint returns: rel values clamped to [0,1],
\* abs values as given or undefined.
validateCalibrationPoint(value) ==
    LET fields == value[1]
    IN [relX |-> clamp01(fields.relX.v),
        relY |-> clamp01(fields.relY.v),
        absX |-> IF fields.absX = <<>> THEN <<>> ELSE <<fields.absX[1].v>>,
        absY |-> IF fields.absY = <<>> THEN <<>> ELSE <<fields.absY[1].v>>]

\* String.prototype.trim on a string given as its characters.
RECURSIVE trimStart(_)
trimStart(str) ==
    IF str # <<>> /\ Head(str) = " " THEN trimStart(Tail(str)) ELSE str

RECURSIVE trimEnd(_)
trimEnd(str) ==
    IF str # <<>> /\ str[Len(str)] = " "
    THEN trimEnd(SubSeq(str, 1, Len(str) - 1)) ELSE str

trim(str) == trimEnd(trimStart(str))

\* parseTapSteps returns: "s" stands for a well-formed "x,y" step, "?" for a
\* malformed one; blank steps are filtered out and at least one must remain.
parseTapSteps(raw) ==
    /\ \E i \in 1..Len(raw) : raw[i] = "s"
    /\ \A i \in 1..Len(raw) : raw[i] # "?"

\* One iteration of the appSearchSteps loop dies.
InvalidSearchSteps(rawStep) == trim(rawStep) = <<>> \/ ~parseTapSteps(rawStep)

\* The label the appSearchSteps loop dies with, <<>> when it completes.
AppSearchStepsError(steps) ==
    IF InvalidSearchSteps(steps["chrome"])
    THEN <<"profile.points.appSearchSteps", "chrome">>
    ELSE IF InvalidSearchSteps(steps["instagram"])
    THEN <<"profile.points.appSearchSteps", "instagram">>
    ELSE IF InvalidSearchSteps(steps["tiktok"])
    THEN <<"profile.points.appSearchSteps", "tiktok">>
    ELSE <<>>

\* The entries of appActionPoints the loop validates: those of a supported
\* app whose action the catalog knows; the others are skipped.
KnownActionEntries(raw) ==
    {e \in raw.entries : e.app \in SUPPORTED_APPS /\ HasActionDefinition(e.app, e.action)}

\* The label the appActionPoints block dies with, <<>> when it completes.
AppActionPointsError(raw) ==
    IF raw.kind = "undefined" THEN <<>>
    ELSE IF raw.kind # "map" THEN <<"profile.points.appActionPoints">>
    ELSE LET bad == {e \in KnownActionEntries(raw) :
                        CalibrationPointError(e.point, "p") # <<>>}
         IN IF bad = {} THEN <<>>
            ELSE LET e == CHOOSE e \in bad : TRUE
                 IN <<"profile.points.appActionPoints", e.app, e.action>>
                      \o Tail(CalibrationPointError(e.point, "p"))

\* The label validateCalibrationProfile dies with, <<>> when it returns.
CalibrationProfileError(raw) ==
    IF raw = <<>> THEN <<"profile">>
    ELSE LET profile == raw[1]
             mw == profile.mirrorWindow
             cr == profile.contentRegion
         IN IF ~validateCalibrationValue(profile.version) THEN <<"profile.version">>
            ELSE IF ~IsInteger(profile.version.v) \/ profile.version.v < Unit
                 THEN <<"profile.version", "unsupported">>
            ELSE IF profile.generatedAt = "" THEN <<"profile.generatedAt">>
            ELSE IF mw = <<>> THEN <<"profile.mirrorWindow">>
            ELSE IF \E k \in {"x1", "y1", "x2", "y2"} : ~validateCalibrationValue(mw[1][k])
                 THEN <<"profile.mirrorWindow", "number">>
            ELSE IF mw[1].x2.v <= mw[1].x1.v \/ mw[1].y2.v <= mw[1].y1.v
                 THEN <<"profile.mirrorWindow", "bounds">>
            ELSE IF cr = <<>> THEN <<"profile.contentRegion">>
            ELSE IF \E k \in {"x", "y", "width", "height"} : ~validateCalibrationValue(cr[1][k])
                 THEN <<"profile.contentRegion", "number">>
            ELSE IF cr[1].width.v <= 0 \/ cr[1].height.v <= 0
                 THEN <<"profile.contentRegion", "size">>
            ELSE IF profile.points = <<>> THEN <<"profile.points">>
            ELSE LET pts == profile.points[1]
                     home == CalibrationPointError(pts.homeSearchButton,
                                                   "profile.points.homeSearchButton")
                     tap == CalibrationPointError(pts.launchResultTap,
                                                  "profile.points.launchResultTap")
                 IN IF home # <<>> THEN home
                    ELSE IF tap # <<>> THEN tap
                    ELSE IF pts.appSearchSteps = <<>> THEN <<"profile.points.appSearchSteps">>
                    ELSE IF AppSearchStepsError(pts.appSearchSteps[1]) # <<>>
                         THEN AppSearchStepsError(pts.appSearchSteps[1])
                    ELSE AppActionPointsError(pts.appActionPoints)

\* validateCalibrationProfile: the profile it returns, or the error it dies with.
validateCalibrationProfile(raw) ==
    IF CalibrationProfileError(raw) # <<>>
    THEN Invalid(CalibrationProfileError(raw))
    ELSE LET profile == raw[1]
             mw == profile.mirrorWindow[1]
             cr == profile.contentRegion[1]
             pts == profile.points[1]
         IN Valid([version |-> Trunc(profile.version.v),
                   generatedAt |-> profile.generatedAt,
                   mirrorWindow |-> [k \in {"x1", "y1", "x2", "y2"} |-> mw[k].v],
                   contentRegion |-> [k \in {"x", "y", "width", "height"} |-> cr[k].v],
                   points |->
                     [homeSearchButton |-> validateCalibrationPoint(pts.homeSearchButton),
                      launchResultTap |-> validateCalibrationPoint(pts.launchResultTap),
                      appSearchSteps |->
                         [a \in SUPPORTED_APPS |-> trim(pts.appSearchSteps[1][a])],
                      appActionPoints |->
                         IF pts.appActionPoints.kind = "undefined" THEN {}
                         ELSE {[app |-> e.app, action |-> e.action,
                                point |-> validateCalibrationPoint(e.point)] :
                                  e \in KnownActionEntries(pts.appActionPoints)}]])

\* Variant that writes a property holding undefined as null.
PointJson_UndefinedAsNull(point) ==
    <<[relX |-> JsonNumber(point.relX),
       relY |-> JsonNumber(point.relY),
       absX |-> IF point.absX = <<>> THEN <<NotANumber>> ELSE <<JsonNumber(point.absX[1])>>,
       absY |-> IF point.absY = <<>> THEN <<NotANumber>> ELSE <<JsonNumber(point.absY[1])>>]>>

\* JSON.stringify of a validated point followed by JSON.parse: numbers come
\* back as numbers, properties holding undefined are left out.
PointJson(point) ==
    <<[relX |-> JsonNumber(point.relX),
       relY |-> JsonNumber(point.relY),
       absX |-> IF point.absX = <<>> THEN <<>> ELSE <<JsonNumber(point.absX[1])>>,
       absY |-> IF point.absY = <<>> THEN <<>> ELSE <<JsonNumber(point.absY[1])>>]>>

\* What persistCalibrationProfile writes for a profile, as the JSON value
\* read back from the file.
ProfileJson(profile) ==
    <<[version |-> JsonNumber(profile.version),
       generatedAt |-> profile.generatedAt,
       mirrorWindow |->
          <<[k \in {"x1", "y1", "x2", "y2"} |-> JsonNumber(profile.mirrorWindow[k])]>>,
       contentRegion |->
          <<[k \in {"x", "y", "width", "height"} |-> JsonNumber(profile.contentRegion[k])]>>,
       points |->
          <<[homeSearchButton |-> PointJson(profile.points.homeSearchButton),
             launchResultTap |-> PointJson(profile.points.launchResultTap),
             appSearchSteps |-> <<profile.points.appSearchSteps>>,
             appActionPoints |->
                [kind |-> "map",
                 entries |-> {[app |-> e.app, action |-> e.action,
                               point |-> PointJson(e.point)] :
                                 e \in profile.points.appActionPoints}]]>>]>>

\* getCalibrationProfile, line 207: validate the parsed file.
LoadProfile ==
    /\ pc = "psLoad"
    /\ loaded' = validateCalibrationProfile(rawProfile)
    /\ IF loaded'.error = <<>>
       THEN pc' = "psPersist" /\ UNCHANGED result
       ELSE pc' = "done" /\ result' = "error"
    /\ UNCHANGED <<config, disk, engine, host, typing, launchState, stack, phase, obs,
                   rawProfile, reloaded>>

\* persistCalibrationProfile of the loaded profile, then loading the file again.
PersistAndReload ==
    /\ pc = "psPersist"
    /\ reloaded' = validateCalibrationProfile(ProfileJson(loaded.profile[1]))
    /\ pc' = "done"
    /\ result' = IF reloaded'.error = <<>> THEN "success" ELSE "error"
    /\ UNCHANGED <<config, disk, engine, host, typing, launchState, stack, phase, obs,
                   rawProfile, loaded>>

StoreNext == LoadProfile \/ PersistAndReload

\* Bounds on the profile files drawn.
RawVersions == {NotANumber, JsonNumber(0), JsonNumber(Unit), JsonNumber(Unit + 1),
                JsonNumber(2 * Unit)}

RawRelValues == {NotANumber, JsonNumber(-1), JsonNumber(1), JsonNumber(Unit + 1)}

RawPoints ==
    {<<>>} \union
    {<<[relX |-> x, relY |-> y, absX |-> ax, absY |-> <<>>]>> :
        x \in RawRelValues, y \in {JsonNumber(Unit), JsonNumber(Unit + 1)},
        ax \in {<<>>, <<JsonNumber(5 * Unit)>>}}

RawTapPoints ==
    {<<[relX |-> JsonNumber(1), relY |-> y, absX |-> <<>>, absY |-> <<>>]>> :
        y \in {JsonNumber(0), JsonNumber(2 * Unit)}}

RawWindows ==
    {<<[x1 |-> JsonNumber(0), y1 |-> JsonNumber(0), x2 |-> JsonNumber(x2), y2 |-> JsonNumber(Unit)]>> :
        x2 \in {0, Unit}}

RawRegions ==
    {<<[x |-> JsonNumber(0), y |-> JsonNumber(0), width |-> JsonNumber(w), height |-> JsonNumber(Unit)]>> :
        w \in {0, Unit}}

RawStepStrings == {<<>>, <<"s">>, <<" ", "s", " ">>, <<"s", "?">>}

RawActionPoints ==
    {[kind |-> "undefined", entries |-> {}],
     [kind |-> "notObject", entries |-> {}]} \union
    {[kind |-> "map", entries |-> es] :
        es \in SUBSET {[app |-> "chrome", action |-> "ellipsis",
                        point |-> <<[relX |-> JsonNumber(-1), relY |-> JsonNumber(1),
                                     absX |-> <<>>, absY |-> <<>>]>>],
                       [app |-> "chrome", action |-> "unknown", point |-> <<>>]}}

RawProfiles ==
    {<<[version |-> v, generatedAt |-> g, mirrorWindow |-> mw, contentRegion |-> cr,
        points |-> <<[homeSearchButton |-> home, launchResultTap |-> tap,
                      appSearchSteps |->
                         <<[a \in SUPPORTED_APPS |-> IF a = "chrome" THEN st ELSE <<"s">>]>>,
                      appActionPoints |-> ap]>>]>> :
        v \in RawVersions, g \in {"", "2026-01-01"}, mw \in RawWindows, cr \in RawRegions,
        home \in RawPoints, tap \in RawTapPoints, st \in RawStepStrings,
        ap \in RawActionPoints}

InitStoreLoad ==
    /\ cmd = "load"
    /\ cfgShortcuts = TRUE
    /\ app = "chrome"
    /\ flow = APP_FLOW_DEFINITIONS[app]
    /\ points = {}
    /\ query = <<>>
    /\ pc = "psLoad"
    /\ rawProfile \in RawProfiles
    /\ loaded = NotLoaded
    /\ reloaded = NotLoaded
    /\ InitDisk
    /\ InitEngine
    /\ InitDevice

SpecStore == InitStoreLoad /\ [][StoreNext]_vars

----------------------------------------------------------------------------
(* Properties of profile validation                                        *)

\* The points stored in a profile file: the home search button, the launch
\* result tap and every action point.
StoredPoints(raw) ==
    LET pts == raw[1].points[1]
    IN {pts.homeSearchButton, pts.launchResultTap}
         \union {e.point : e \in pts.appActionPoints.entries}

\* C11: a profile is loaded only when its version is a schema version the
\* loader understands, which is version 1, the only one this code writes.
C11_UnknownVersionRejected ==
    (loaded.error = <<>>) => (rawProfile[1].version = JsonNumber(Unit))

\* C12: a profile in which a stored point has relX or relY outside [0,1] is
\* never returned by load.
C12_OutOfRangePointRejected ==
    (loaded.error = <<>>) =>
        \A point \in StoredPoints(rawProfile) :
            point # <<>> =>
                /\ point[1].relX.v >= 0 /\ point[1].relX.v <= Unit
                /\ point[1].relY.v >= 0 /\ point[1].relY.v <= Unit

\* C13: persisting a profile that load has validated and loading the file
\* again yields a profile equal to it.
C13_PersistLoadRoundTrip ==
    (reloaded # NotLoaded) => (reloaded = loaded /\ reloaded.error = <<>>)

C13_Witness ==
    /\ pc = "done"
    /\ reloaded.error = <<>>
    /\ reloaded.profile[1].points.homeSearchButton.absX # <<>>
    /\ rawProfile[1].points[1].appSearchSteps[1]["chrome"] = <<" ", "s", " ">>
    /\ reloaded.profile[1].points.appSearchSteps["chrome"] = <<"s">>

----------------------------------------------------------------------------
(* Calibrate-all ordering: flow/calibration, lines 109-137                 *)

\* Bound on the prerequisites one catalog entry declares.
MaxPrerequisites == 2

RECURSIVE visit(_, _, _)
RECURSIVE visitPrerequisites(_, _, _, _)

\* ACTION_CALIBRATION_DEFINITIONS.filter(skipInCalibrateAll !== true)
Candidates(definitions) ==
    SelectSeq(definitions, LAMBDA definition : definition.skipInCalibrateAll # TRUE)

CandidateIds(candidates) == {candidates[i].id : i \in DOMAIN candidates}

\* indexed.get(id) for an id the map holds: a later entry replaces an earlier
\* one with the same id.
IndexedGet(candidates, id) ==
    LET i == CHOOSE j \in DOMAIN candidates :
                 /\ candidates[j].id = id
                 /\ \A k \in DOMAIN candidates : k > j => candidates[k].id # id
    IN candidates[i]

\* The prerequisites the loop visits, in declared order; only the first.
PrerequisitesToVisit_FirstOnly(definition, candidates) ==
    LET ids == SelectSeq(definition.prerequisites,
                         LAMBDA id : id \in CandidateIds(candidates))
    IN IF ids = <<>> THEN <<>> ELSE <<ids[1]>>

\* The prerequisites the loop visits, in declared order: those the index
\* holds (`if (prerequisite) visit(prerequisite)`).
PrerequisitesToVisit(definition, candidates) ==
    SelectSeq(definition.prerequisites, LAMBDA id : id \in CandidateIds(candidates))

NoVisits == [resolved |-> {}, visiting |-> {}, ordered |-> <<>>, error |-> <<>>]

\* Meeting a definition that is being visited, taken for a resolved one.
Revisit_Ignored(definition, st) == st

\* Meeting a definition that is being visited: die(...) naming it.
Revisit(definition, st) ==
    [st EXCEPT !.error = <<"Circular calibration prerequisite detected", definition.id>>]

\* The closure `visit`; a raised error ends every enclosing call.
visit(candidates, definition, st) ==
    IF st.error # <<>> THEN st
    ELSE IF definition.id \in st.resolved THEN st
    ELSE IF definition.id \in st.visiting THEN Revisit(definition, st)
    ELSE LET entered == [st EXCEPT !.visiting = @ \union {definition.id}]
             after == visitPrerequisites(candidates,
                                         PrerequisitesToVisit(definition, candidates),
                                         1, entered)
         IN IF after.error # <<>> THEN after
            ELSE [after EXCEPT !.visiting = @ \ {definition.id},
                               !.resolved = @ \union {definition.id},
                               !.ordered = Append(@, definition)]

\* The loop over definition.prerequisites, from the k-th on.
visitPrerequisites(candidates, ids, k, st) ==
    IF k > Len(ids) \/ st.error # <<>> THEN st
    ELSE visitPrerequisites(candidates, ids, k + 1,
                            visit(candidates, IndexedGet(candidates, ids[k]), st))

RECURSIVE visitCandidates(_, _, _)

\* The loop `for (const definition of candidates) visit(definition)`.
visitCandidates(candidates, k, st) ==
    IF k > Len(candidates) \/ st.error # <<>> THEN st
    ELSE visitCandidates(candidates, k + 1, visit(candidates, candidates[k], st))

getAllCalibrationDefinitionsForAllMode(definitions) ==
    LET st == visitCandidates(Candidates(definitions), 1, NoVisits)
    IN [error |-> st.error,
        ordered |-> IF st.error = <<>> THEN st.ordered ELSE <<>>]

\* runCalibrateAllWorkflow, line 215: the order is computed before any step.
OrderDefinitions ==
    /\ cmd \in {"calibrateAll", "debugCalibrateAll"} /\ pc = "caOrder"
    /\ ordering' = getAllCalibrationDefinitionsForAllMode(catalog)
    /\ IF ordering'.error = <<>>
       THEN pc' = "caStep" /\ UNCHANGED wf
       ELSE pc' = "caRejected" /\ wf' = [wf EXCEPT !.error = <<"error">>]
    /\ UNCHANGED <<config, disk, store, host, typing, launchState, stack, phase, obs,
                   catalog, prompt, trace, result>>

OrderNext == OrderDefinitions

\* Bound on the catalogs drawn: three actions, each declaring any list of
\* prerequisites among them, at most one of them left out of calibrate-all;
\* and the catalog of the program.
OrderIds ==
    <<ActionId("chrome", "ellipsis"), ActionId("chrome", "newIncognitoTab"),
      ActionId("chrome", "searchBar")>>

PrerequisiteLists ==
    UNION {[1..n -> {OrderIds[i] : i \in DOMAIN OrderIds}] : n \in 0..MaxPrerequisites}

Catalogs ==
    {[i \in DOMAIN OrderIds |->
        [Definition(OrderIds[i].app, OrderIds[i].action, "app-active", prereqs[i],
                    FALSE, FALSE)
            EXCEPT !.skipInCalibrateAll = (i = skipped)]] :
        prereqs \in [DOMAIN OrderIds -> PrerequisiteLists],
        skipped \in {0} \union DOMAIN OrderIds}
    \union {ACTION_CALIBRATION_DEFINITIONS}

InitOrder ==
    /\ cmd = "calibrateAll"
    /\ cfgShortcuts = TRUE
    /\ app = "chrome"
    /\ flow = APP_FLOW_DEFINITIONS[app]
    /\ points = {}
    /\ query = <<>>
    /\ pc = "caOrder"
    /\ catalog \in Catalogs
    /\ ordering = NotOrdered
    /\ InitWorkflow
    /\ InitDisk
    /\ InitStore
    /\ InitDevice

SpecOrder == InitOrder /\ [][OrderNext]_vars

----------------------------------------------------------------------------
(* Properties of the calibrate-all ordering                                *)

OrderedIds == [i \in DOMAIN ordering.ordered |-> ordering.ordered[i].id]

\* The prerequisites of a definition that calibrate-all captures too.
CapturedPrerequisites(definition) ==
    {definition.prerequisites[k] : k \in DOMAIN definition.prerequisites}
        \cap CandidateIds(Candidates(catalog))

\* C15: the order calibrate-all computes holds every action it captures
\* exactly once, each after all of the prerequisites it declares.
C15_PrerequisitesComeFirst ==
    (ordering.error = <<>>) =>
        /\ {OrderedIds[i] : i \in DOMAIN OrderedIds} = CandidateIds(Candidates(catalog))
        /\ Len(OrderedIds) = Len(Candidates(catalog))
        /\ \A i \in DOMAIN OrderedIds :
             \A id \in CapturedPrerequisites(ordering.ordered[i]) :
                \E j \in 1..(i - 1) : OrderedIds[j] = id

C15_Witness ==
    /\ pc = "caStep"
    /\ Len(catalog) = 3
    /\ catalog[1].prerequisites = <<OrderIds[2], OrderIds[3]>>
    /\ catalog[2].prerequisites = <<OrderIds[3]>>
    /\ OrderedIds = <<OrderIds[3], OrderIds[2], OrderIds[1]>>

RECURSIVE PrerequisiteClosure(_, _)

\* The ids reached from the given ones over one or more prerequisite links
\* between captured actions.
PrerequisiteClosure(ids, n) ==
    LET candidates == Candidates(catalog)
        next == UNION {CapturedPrerequisites(IndexedGet(candidates, id)) : id \in ids}
    IN IF n = 0 THEN {} ELSE next \union PrerequisiteClosure(next, n - 1)

OnCycle(id) == id \in PrerequisiteClosure({id}, Len(catalog))

\* C16: when the prerequisites of the captured actions form a cycle,
\* computing the order fails with the circular-prerequisite error, which
\* names an action on a cycle, and returns no order.
C16_CycleIsReported ==
    (ordering # NotOrdered /\ \E id \in CandidateIds(Candidates(catalog)) : OnCycle(id))
    => /\ Len(ordering.error) = 2
       /\ ordering.error[1] = "Circular calibration prerequisite detected"
       /\ ordering.error[2] \in CandidateIds(Candidates(catalog))
       /\ OnCycle(ordering.error[2])
       /\ ordering.ordered = <<>>

C16_Witness ==
    /\ pc = "caRejected" /\ wf.error = <<"error">>
    /\ Len(catalog) = 3
    /\ catalog[1].prerequisites = <<OrderIds[2]>>
    /\ catalog[2].prerequisites = <<OrderIds[3]>>
    /\ catalog[3].prerequisites = <<OrderIds[2]>>
    /\ ~OnCycle(OrderIds[1])
    /\ ordering.error = <<"Circular calibration prerequisite detected", OrderIds[2]>>

----------------------------------------------------------------------------
(* Interactive prompts: calibration-ui promptAndCapturePoint and the       *)
(* checkpoint driver's promptLine                                          *)

\* What the operator can answer to a promptLine, trimmed and lower-cased.
Answers == {"", "r", "p", "f"}

\* Where queryMouseLocation finds the pointer.
MouseSamples == CapturedPoints \union {"outside"}

\* Bound on the positions sampled when a capture step's prompt has returned:
\* any of them for the home search button, one inside the content region and
\* the one outside it for an action point.
SamplesFor(kind) ==
    IF kind = "capture-home-search-button" THEN MouseSamples ELSE {"p", "outside"}

\* promptLine up to its return: createInterface, rl.question, the timeout
\* timer when timeoutSec is given, the SIGINT handler.
promptLineOpened(timeout) ==
    [NoPrompt EXCEPT !.kind = "line", !.listener = "open",
                     !.timer = IF timeout THEN "running" ELSE "none"]

\* promptAndCapturePoint up to its return: createInterface, setInterval and
\* the first renderTelemetry.
promptPointOpened(sample) ==
    [NoPrompt EXCEPT !.kind = "point", !.listener = "open", !.timer = "running",
                     !.sample = sample]

\* promptLine's finish: once only; clearTimeout, rl.close(), then the callback.
finish(p, outcome, answer) ==
    IF p.settled THEN p
    ELSE [p EXCEPT !.settled = TRUE,
                   !.timer = IF @ = "running" THEN "cleared" ELSE @,
                   !.listener = "closed",
                   !.outcome = outcome,
                   !.answer = answer]

\* finalize without its clearInterval.
finalize_IntervalLeftRunning(p, outcome) ==
    IF p.settled THEN p
    ELSE [p EXCEPT !.settled = TRUE,
                   !.listener = "closed",
                   !.outcome = outcome]

\* promptAndCapturePoint's finalize: once only; clearInterval, rl.close(),
\* then reject(error) or resolve().
finalize(p, outcome) ==
    IF p.settled THEN p
    ELSE [p EXCEPT !.settled = TRUE,
                   !.timer = IF @ = "running" THEN "cleared" ELSE @,
                   !.listener = "closed",
                   !.outcome = outcome]

\* What the workflow actions leave alone.
workflowFrame ==
    <<config, store, host, typing, launchState, stack, phase, obs, catalog, ordering>>

\* The prompt's promise settled: the awaiting code runs next.
Settled(p) == IF p.outcome = "pending" THEN "caPrompt" ELSE "caPrompted"

\* The operator presses Enter: rl.question's callback, or the "line" event.
PromptEnter ==
    /\ pc = "caPrompt" /\ prompt.listener = "open"
    /\ \/ /\ prompt.kind = "line"
          /\ \E answer \in Answers :
                prompt' = finish([prompt EXCEPT !.line = TRUE], "resolved", answer)
       \/ /\ prompt.kind = "point"
          /\ prompt' = finalize([prompt EXCEPT !.line = TRUE], "resolved")
    /\ pc' = Settled(prompt')
    /\ UNCHANGED <<workflowFrame, disk, wf, trace, result>>

\* The input stream ends: readline closes the interface and emits "close".
\* promptAndCapturePoint listens for it; promptLine does not.
PromptInputClosed ==
    /\ pc = "caPrompt" /\ prompt.listener = "open"
    /\ \/ /\ prompt.kind = "line"
          /\ prompt' = [prompt EXCEPT !.listener = "closed"]
       \/ /\ prompt.kind = "point"
          /\ prompt' = finalize([prompt EXCEPT !.listener = "closed"], "resolved")
    /\ pc' = Settled(prompt')
    /\ UNCHANGED <<workflowFrame, disk, wf, trace, result>>

\* Ctrl+C while the interface is open: the "SIGINT" handler.
PromptSigint ==
    /\ pc = "caPrompt" /\ prompt.listener = "open"
    /\ \/ /\ prompt.kind = "line"
          /\ prompt' = finish(prompt, "rejected", "")
       \/ /\ prompt.kind = "point"
          /\ prompt' = finalize(prompt, "rejected")
    /\ pc' = Settled(prompt')
    /\ wf' = [wf EXCEPT !.interrupted = TRUE]
    /\ UNCHANGED <<workflowFrame, disk, trace, result>>

\* The timer fires: promptLine's timeout answers with the fallback, the
\* interval of promptAndCapturePoint renders the pointer's new position.
PromptTimer ==
    /\ prompt.timer = "running"
    /\ \/ /\ prompt.kind = "line"
          /\ prompt' = finish([prompt EXCEPT !.timer = "fired"], "resolved", "__timeout__")
          /\ pc' = Settled(prompt')
       \/ /\ prompt.kind = "point"
          /\ \E sample \in MouseSamples \ {prompt.sample} :
                prompt' = [prompt EXCEPT !.sample = sample]
          /\ UNCHANGED pc
    /\ UNCHANGED <<workflowFrame, disk, wf, trace, result>>

----------------------------------------------------------------------------
(* The calibrate-all workflow and its step engine: flow/calibration        *)
(* runCalibrateAllWorkflow, runCalibrateAllStep; and the checkpoint driver *)
(* debugCalibrateAll that installs hooks                                   *)

\* debugCalibrateAll passes hooks; calibrateAll passes none.
Hooked == cmd = "debugCalibrateAll"

\* totalSteps = orderedDefinitions.length * 2 + 4
TotalSteps == Len(ordering.ordered) * 2 + 4

FixedStep(kind) ==
    [kind |-> kind, definition |-> <<>>, app |-> "", targetContext |-> ""]

DefinitionStep(kind, definition) ==
    [kind |-> kind, definition |-> <<definition>>, app |-> definition.id.app,
     targetContext |-> definition.autoNavigateTo]

\* The persist step allocated before the per-definition steps.
StepAt_PersistBeforeCaptures(n) ==
    IF n = 1 THEN FixedStep("preflight")
    ELSE IF n = 2 THEN FixedStep("focus-mirroring")
    ELSE IF n = 3 THEN FixedStep("capture-home-search-button")
    ELSE IF n = 4 THEN FixedStep("persist-profile")
    ELSE LET definition == ordering.ordered[(n - 3) \div 2]
         IN DefinitionStep(IF n % 2 = 1 THEN "transition-context"
                           ELSE "capture-action-point", definition)

\* The n-th step the workflow allocates with nextStep.
StepAt(n) ==
    IF n = 1 THEN FixedStep("preflight")
    ELSE IF n = 2 THEN FixedStep("focus-mirroring")
    ELSE IF n = 3 THEN FixedStep("capture-home-search-button")
    ELSE IF n = TotalSteps THEN FixedStep("persist-profile")
    ELSE LET definition == ordering.ordered[(n - 2) \div 2]
         IN DefinitionStep(IF n % 2 = 0 THEN "transition-context"
                           ELSE "capture-action-point", definition)

CurrentStep == StepAt(wf.step)

shouldUseLaunchSubSteps(step, context) ==
    /\ step.kind = "transition-context"
    /\ step.targetContext \in {"app-active", "search-focused"}
    /\ (context.currentApp # step.app \/ context.currentContext # step.targetContext)

\* One more call made by runCalibrateAllStep for the running step.
Called(n, call, error) == Append(trace, [step |-> n, call |-> call, error |-> error])

\* A raise inside runCalibrateAllStep's try block.
Raise(kind) ==
    /\ pc' = "caCatch"
    /\ wf' = [wf EXCEPT !.error = <<kind>>]

\* debugCalibrateAll's requireInteractiveTerminal, then the first lines of
\* runCalibrateAllWorkflow: the existing profile and its action points.
WorkflowStart ==
    /\ cmd \in {"calibrateAll", "debugCalibrateAll"} /\ pc = "caStart"
    /\ clock' = clock + 1
    /\ \E tty \in BOOLEAN :
        IF Hooked /\ ~tty
        THEN /\ pc' = "done"
             /\ result' = "error"
             /\ wf' = [wf EXCEPT !.topLevel = "error"]
             /\ UNCHANGED job
        ELSE /\ pc' = "caOrder"
             /\ job' = [NoJob EXCEPT !.kind = "calibrateAll",
                                     !.existing = getExistingCalibrationProfile]
             /\ wf' = [wf EXCEPT !.merged =
                          IF ProfileLoads THEN file[1].appActionPoints ELSE {}]
             /\ UNCHANGED result
    /\ UNCHANGED <<config, store, host, typing, launchState, stack, phase, obs, catalog,
                   ordering, file, snapshots, prompt, trace>>

\* The next runCalibrateAllStep up to its action: hooks.beforeStep, which in
\* the checkpoint driver waits for Enter unless the step runs launch
\* sub-steps. After the last step the workflow returns.
StepBegin ==
    /\ pc = "caStep"
    /\ IF wf.step = TotalSteps
       THEN /\ pc' = "caResolved"
            /\ UNCHANGED <<wf, prompt, trace>>
       ELSE LET n == wf.step + 1 IN
            IF ~Hooked
            THEN /\ wf' = [wf EXCEPT !.step = n]
                 /\ pc' = "caAction"
                 /\ UNCHANGED <<prompt, trace>>
            ELSE /\ trace' = Called(n, "beforeStep", <<>>)
                 /\ IF shouldUseLaunchSubSteps(StepAt(n), wf.context)
                    THEN /\ wf' = [wf EXCEPT !.step = n,
                                             !.operatorVerdict = "not-recorded",
                                             !.delegated = @ \cup {n}]
                         /\ pc' = "caAction"
                         /\ UNCHANGED prompt
                    ELSE /\ wf' = [wf EXCEPT !.step = n,
                                             !.operatorVerdict = "not-recorded",
                                             !.awaiting = "enter",
                                             !.enterAsked = @ \cup {n}]
                         /\ prompt' = promptLineOpened(FALSE)
                         /\ pc' = "caPrompt"
    /\ UNCHANGED <<workflowFrame, disk, result>>

\* The actions of the preflight-check and focus-mirroring steps: each
\* completes or dies. The focus step queries the window's bounds and keeps
\* the content region computed from them in the workflow's locals.
CheckStep ==
    /\ pc = "caAction" /\ CurrentStep.kind \in {"preflight", "focus-mirroring"}
    /\ trace' = Called(wf.step, "action", <<>>)
    /\ \E ok \in BOOLEAN :
        IF ok
        THEN /\ pc' = "caAfter"
             /\ wf' = IF CurrentStep.kind = "focus-mirroring"
                      THEN [wf EXCEPT !.contentRegion = wf.window] ELSE wf
        ELSE Raise("error")
    /\ UNCHANGED <<workflowFrame, disk, prompt, result>>

\* The action of a capture step up to the prompt of capturePointFromMouse.
CaptureStep ==
    /\ pc = "caAction"
    /\ CurrentStep.kind \in {"capture-home-search-button", "capture-action-point"}
    /\ trace' = Called(wf.step, "action", <<>>)
    /\ \E sample \in MouseSamples : prompt' = promptPointOpened(sample)
    /\ wf' = [wf EXCEPT !.awaiting = "point"]
    /\ pc' = "caPrompt"
    /\ UNCHANGED <<workflowFrame, disk, result>>

\* The operator moves the iPhone Mirroring window while a prompt waits for
\* them.
MirrorPositions == {"first", "second"}

MirrorWindowMoves ==
    /\ cmd \in {"calibrateAll", "debugCalibrateAll"} /\ pc = "caPrompt"
    /\ \E to \in MirrorPositions \ {wf.window} : wf' = [wf EXCEPT !.window = to]
    /\ UNCHANGED <<workflowFrame, disk, pc, prompt, trace, result>>

\* A conversion made with the content region of the bounds the window had at
\* position region.
Converts(w, region) ==
    [w EXCEPT !.conversions = @ \union {[region |-> region, window |-> w.window]}]

\* capturePointFromMouse after the prompt: the pointer is sampled and
\* converted with the contentRegion it was handed, a point outside that region
\* dies, the point is tapped through clickRel, which queries the bounds again
\* (the tap may fail), and stored in the workflow's locals.
SamplePoint ==
    /\ pc = "caSample"
    /\ \E sample \in SamplesFor(CurrentStep.kind), tapped \in BOOLEAN :
        LET sampled == Converts(wf, wf.contentRegion)
            clicked == Converts(sampled, wf.window)
        IN IF sample = "outside"
           THEN pc' = "caCatch" /\ wf' = [sampled EXCEPT !.error = <<"error">>]
           ELSE IF ~tapped
           THEN pc' = "caCatch" /\ wf' = [clicked EXCEPT !.error = <<"error">>]
           ELSE /\ pc' = "caAfter"
                /\ wf' = IF CurrentStep.kind = "capture-home-search-button"
                         THEN [clicked EXCEPT !.homeSearchButton = sample,
                                              !.context = [currentApp |-> "",
                                                           currentContext |-> "search-entry"]]
                         ELSE LET id == CurrentStep.definition[1].id IN
                              [clicked EXCEPT !.merged =
                                  {e \in @ : e.id # id} \union {[id |-> id, point |-> sample]}]
    /\ UNCHANGED <<workflowFrame, disk, prompt, trace, result>>

\* What a transition that drives the device ends with. Under the checkpoint
\* driver's launch sub-step hooks the launch can also raise the operator's
\* fail verdict or the cancellation of a sub-step prompt.
TransitionOutcomes(step) ==
    {"ok", "error"} \union
    (IF Hooked /\ shouldUseLaunchSubSteps(step, wf.context)
     THEN {"operator marked failed", "canceled by user"} ELSE {})

\* transitionToCalibrationContext's switch (lines 176-208): what is driven to
\* reach the step's target context from the context given.
NavigationCalls(step, context) ==
    CASE step.targetContext = "home" -> <<"goHomeBestEffort">>
      [] step.targetContext = "search-entry" -> <<"runSearchEntry">>
      [] step.targetContext = "app-active" -> <<"openAppBySearchWithFallback">>
      [] step.targetContext = "search-focused" ->
            IF Len(APP_FLOW_DEFINITIONS[step.app].postLaunchActions) > 0
            THEN <<"openAppBySearchWithFallback", "runFlowPostLaunchActions">>
            ELSE <<"openAppBySearchWithFallback">>
      [] OTHER -> IF context.currentApp # step.app
                  THEN <<"openAppBySearchWithFallback">> ELSE <<>>

\* The error getCalibrationProfile dies with when no profile is cached and
\* none loads from BASE_COORDINATES_FILE.
MissingProfile == "no calibration profile"

\* The profile lookups a navigation makes before it drives anything:
\* runSearchEntry takes the app's searchIcon from the action points handed in
\* and, without one, getSearchButtonProfilePoint reads the profile (lines
\* 248-249); openAppBySearchWithFallback starts with runSearchEntry in every
\* attempt, and its home-icon fallback reads the profile for homeIcon with no
\* action points handed in (line 218).
NavigationReadsProfile(step, calls) ==
    /\ \E i \in 1..Len(calls) :
          calls[i] \in {"runSearchEntry", "openAppBySearchWithFallback"}
    /\ ~\E e \in wf.merged : e.id = ActionId(step.app, "searchIcon")

\* What a navigation ends with: without the profile it reads it cannot
\* succeed, whatever the device does.
NavigationOutcomes(step, calls) ==
    IF calls = <<>> THEN {"ok"}
    ELSE IF NavigationReadsProfile(step, calls) /\ ~ProfileLoads
    THEN (TransitionOutcomes(step) \ {"ok", "error"}) \union {MissingProfile}
    ELSE TransitionOutcomes(step)

\* The transition of the running step, for the record of transitions.
Transition(calls) ==
    [step |-> wf.step, from |-> wf.context,
     target |-> [currentApp |-> CurrentStep.app,
                 currentContext |-> CurrentStep.targetContext],
     calls |-> calls]

\* The action of a transition step: transitionToCalibrationContext. It
\* returns at once when the runtime context is the step's; otherwise it
\* awaits the navigation and sets the runtime context after it (lines 209-210).
TransitionStep ==
    /\ pc = "caAction" /\ CurrentStep.kind = "transition-context"
    /\ trace' = Called(wf.step, "action", <<>>)
    /\ LET step == CurrentStep
           reached == [currentApp |-> step.app, currentContext |-> step.targetContext]
           calls == NavigationCalls(step, wf.context)
       IN IF wf.context = reached
          THEN /\ pc' = "caAfter"
               /\ wf' = [wf EXCEPT !.transitions = @ \cup {Transition(<<>>)}]
          ELSE \E outcome \in NavigationOutcomes(step, calls) :
                 LET w1 == [wf EXCEPT !.transitions = @ \cup {Transition(calls)}]
                 IN IF outcome = "ok"
                    THEN /\ pc' = "caAfter"
                         /\ wf' = [w1 EXCEPT !.context = reached,
                                             !.operatorVerdict =
                                                IF Hooked /\ shouldUseLaunchSubSteps(step, wf.context)
                                                THEN "pass" ELSE @]
                    ELSE /\ pc' = "caCatch"
                         /\ wf' = [w1 EXCEPT !.error = <<outcome>>,
                                             !.operatorVerdict =
                                                IF outcome = "operator marked failed"
                                                THEN "fail" ELSE @]
    /\ UNCHANGED <<workflowFrame, disk, prompt, result>>

\* The persist step's action up to the screenshot: the profile is built (its
\* launchResultTap converted with the workflow's contentRegion) and
\* backupExistingCalibrationProfile renames an existing file.
PersistStepBackup ==
    /\ pc = "caAction" /\ CurrentStep.kind = "persist-profile"
    /\ trace' = Called(wf.step, "action", <<>>)
    /\ IF wf.homeSearchButton = ""
       THEN Raise("error") /\ UNCHANGED <<file, snapshots>>
       ELSE /\ pc' = "caScreenshot"
            /\ IF file = <<>>
               THEN /\ wf' = Converts(wf, wf.contentRegion)
                    /\ UNCHANGED <<file, snapshots>>
               ELSE /\ snapshots' = snapshots \union {[at |-> clock, content |-> file[1]]}
                    /\ file' = <<>>
                    /\ wf' = [Converts(wf, wf.contentRegion) EXCEPT !.renames = @ + 1]
    /\ UNCHANGED <<workflowFrame, clock, job, prompt, result>>

\* screenshotContent between the backup and the write.
PersistStepScreenshot ==
    /\ pc = "caScreenshot"
    /\ \E o \in ScreenshotOutcomes :
        IF o = "written" THEN pc' = "caWrite" /\ UNCHANGED wf ELSE Raise("error")
    /\ UNCHANGED <<workflowFrame, disk, prompt, trace, result>>

\* The profile the persist step builds.
CalibrateAllProfile ==
    [parses |-> TRUE,
     generatedAt |-> clock,
     homeSearchButton |-> wf.homeSearchButton,
     appSearchSteps |->
        IF job.existing = <<>> THEN "default" ELSE job.existing[1].appSearchSteps,
     appActionPoints |-> wf.merged]

\* persistCalibrationProfile: writeFileSync of the new profile.
PersistStepWrite ==
    /\ pc = "caWrite"
    /\ file' = <<CalibrateAllProfile>>
    /\ wf' = [wf EXCEPT !.writes = @ + 1]
    /\ pc' = "caAfter"
    /\ UNCHANGED <<workflowFrame, snapshots, clock, job, prompt, trace, result>>

\* promptVerdict is called for the running step.
AwaitVerdict(w) == [w EXCEPT !.awaiting = "verdict", !.verdictAsked = @ \cup {w.step}]

\* hooks.afterStep up to its first prompt. The checkpoint driver asks for
\* the verdict (after the recovery question on the focus step) unless the
\* step still needs launch sub-steps; the checkpoint screenshot never raises.
StepAfter ==
    /\ pc = "caAfter"
    /\ IF ~Hooked
       THEN pc' = "caStep" /\ UNCHANGED <<wf, prompt, trace>>
       ELSE /\ trace' = Called(wf.step, "afterStep", <<>>)
            /\ IF shouldUseLaunchSubSteps(CurrentStep, wf.context)
               THEN /\ wf' = [wf EXCEPT !.operatorVerdict =
                                 IF @ = "not-recorded" THEN "pass" ELSE @]
                    /\ pc' = "caStep"
                    /\ UNCHANGED prompt
               ELSE /\ wf' = IF CurrentStep.kind = "focus-mirroring"
                             THEN [wf EXCEPT !.awaiting = "recovery"]
                             ELSE AwaitVerdict(wf)
                    /\ prompt' = promptLineOpened(FALSE)
                    /\ pc' = "caPrompt"
    /\ UNCHANGED <<workflowFrame, disk, result>>

\* The code awaiting the prompt goes on: a rejected prompt raises the
\* cancellation; waitForEnterStep returns; runMirrorResumeRecoveryIfRequested
\* and promptVerdict act on the answer.
PromptContinue ==
    /\ pc = "caPrompted"
    /\ IF prompt.outcome = "rejected"
       THEN Raise("canceled by user") /\ UNCHANGED prompt
       ELSE CASE wf.awaiting = "enter" ->
                    pc' = "caAction" /\ UNCHANGED <<wf, prompt>>
              [] wf.awaiting = "point" ->
                    pc' = "caSample" /\ UNCHANGED <<wf, prompt>>
              [] wf.awaiting = "recovery" ->
                    IF prompt.answer = ""
                    THEN /\ wf' = AwaitVerdict(wf)
                         /\ prompt' = promptLineOpened(FALSE)
                         /\ pc' = "caPrompt"
                    ELSE IF prompt.answer # "r"
                    THEN /\ prompt' = promptLineOpened(FALSE)
                         /\ pc' = "caPrompt"
                         /\ UNCHANGED wf
                    ELSE \E clicked \in BOOLEAN :
                           IF clicked
                           THEN /\ wf' = [wf EXCEPT !.awaiting = "touchid"]
                                /\ prompt' = promptLineOpened(TRUE)
                                /\ pc' = "caPrompt"
                           ELSE Raise("error") /\ UNCHANGED prompt
              [] wf.awaiting = "touchid" ->
                    /\ wf' = AwaitVerdict(wf)
                    /\ prompt' = promptLineOpened(FALSE)
                    /\ pc' = "caPrompt"
              [] wf.awaiting = "verdict" ->
                    IF prompt.answer = "p"
                    THEN /\ wf' = [wf EXCEPT !.operatorVerdict = "pass"]
                         /\ pc' = "caStep"
                         /\ UNCHANGED prompt
                    ELSE IF prompt.answer = "f"
                    THEN /\ wf' = [wf EXCEPT !.operatorVerdict = "fail",
                                             !.error = <<"operator marked failed">>]
                         /\ pc' = "caCatch"
                         /\ UNCHANGED prompt
                    ELSE /\ prompt' = promptLineOpened(FALSE)
                         /\ pc' = "caPrompt"
                         /\ UNCHANGED wf
    /\ UNCHANGED <<workflowFrame, disk, trace, result>>

\* The catch block without its `throw error`: the workflow goes on.
StepCatch_ErrorSwallowed ==
    /\ pc = "caCatch"
    /\ trace' = IF Hooked THEN Called(wf.step, "onStepError", wf.error) ELSE trace
    /\ pc' = "caStep"
    /\ UNCHANGED <<workflowFrame, disk, wf, prompt, result>>

\* runCalibrateAllStep's catch block: hooks.onStepError, then `throw error`,
\* which nothing in runCalibrateAllWorkflow catches.
StepCatch ==
    /\ pc = "caCatch"
    /\ trace' = IF Hooked THEN Called(wf.step, "onStepError", wf.error) ELSE trace
    /\ pc' = "caRejected"
    /\ UNCHANGED <<workflowFrame, disk, wf, prompt, result>>

\* The catch block writing a report for an operator-marked failure only.
WorkflowRejected_ReportsOperatorFailOnly ==
    /\ pc = "caRejected"
    /\ wf' = [wf EXCEPT !.reports =
                            IF wf.error = <<"operator marked failed">> THEN @ + 1 ELSE @,
                        !.topLevel =
                            IF ~Hooked THEN wf.error[1]
                            ELSE IF wf.error = <<"operator marked failed">>
                            THEN "stopped after operator-marked failure"
                            ELSE "stopped after runtime failure"]
    /\ pc' = "done"
    /\ result' = "error"
    /\ UNCHANGED <<workflowFrame, disk, prompt, trace>>

\* The workflow's promise rejects. calibrateAll hands the error to the top
\* level; debugCalibrateAll's catch block builds and writes the failure
\* report and throws an error of its own.
WorkflowRejected ==
    /\ pc = "caRejected"
    /\ wf' = [wf EXCEPT !.reports = IF Hooked THEN @ + 1 ELSE @,
                        !.topLevel =
                            IF ~Hooked THEN wf.error[1]
                            ELSE IF wf.error = <<"operator marked failed">>
                            THEN "stopped after operator-marked failure"
                            ELSE "stopped after runtime failure"]
    /\ pc' = "done"
    /\ result' = "error"
    /\ UNCHANGED <<workflowFrame, disk, prompt, trace>>

\* The workflow's promise resolves.
WorkflowResolved ==
    /\ pc = "caResolved"
    /\ wf' = [wf EXCEPT !.topLevel = "completed"]
    /\ pc' = "done"
    /\ result' = "success"
    /\ UNCHANGED <<workflowFrame, disk, prompt, trace>>

WorkflowNext ==
    \/ WorkflowStart
    \/ OrderDefinitions
    \/ StepBegin
    \/ PromptEnter
    \/ PromptInputClosed
    \/ PromptSigint
    \/ PromptTimer
    \/ PromptContinue
    \/ MirrorWindowMoves
    \/ CheckStep
    \/ CaptureStep
    \/ SamplePoint
    \/ TransitionStep
    \/ PersistStepBackup
    \/ PersistStepScreenshot
    \/ PersistStepWrite
    \/ StepAfter
    \/ StepCatch
    \/ WorkflowRejected
    \/ WorkflowResolved

InitCalibrateAll ==
    /\ cmd \in {"calibrateAll", "debugCalibrateAll"}
    /\ cfgShortcuts = TRUE
    /\ app = "chrome"
    /\ flow = APP_FLOW_DEFINITIONS[app]
    /\ points = {}
    /\ query = <<>>
    /\ pc = "caStart"
    /\ catalog = ACTION_CALIBRATION_DEFINITIONS
    /\ ordering = NotOrdered
    /\ InitWorkflow
    /\ file \in {<<>>} \union {<<p>> : p \in InitialProfiles}
    /\ snapshots = {}
    /\ clock = 0
    /\ job = NoJob
    /\ InitStore
    /\ InitDevice

SpecCalibrateAll == InitCalibrateAll /\ [][WorkflowNext]_vars

----------------------------------------------------------------------------
(* Properties of the calibrate-all workflow                                *)

\* Every action calibrate-all captures has a point among the merged ones.
AllCaptured ==
    \A i \in DOMAIN ordering.ordered :
        \E e \in wf.merged : e.id = ordering.ordered[i].id

\* C14: a calibrate-all run that completes has written the profile file
\* once; the file is renamed and written only while the last step runs, with
\* the home search button and every action captured; so a run that ends in an
\* earlier step leaves the file as it was.
C14_ProfileWrittenOnceAtTheEnd ==
    /\ []((pc = "done" /\ result = "success")
            => /\ wf.writes = 1
               /\ file # <<>>
               /\ file[1].homeSearchButton = wf.homeSearchButton
               /\ file[1].appActionPoints = wf.merged
               /\ AllCaptured)
    /\ []((pc = "done" /\ result = "error" /\ wf.step < TotalSteps)
            => (wf.writes = 0 /\ wf.renames = 0))
    /\ [][(file' # file \/ snapshots' # snapshots)
            => /\ ordering.error = <<>>
               /\ wf.step = TotalSteps
               /\ wf.homeSearchButton # ""
               /\ AllCaptured]_vars

C14_Witness ==
    /\ pc = "done" /\ result = "success"
    /\ wf.writes = 1 /\ wf.renames = 1
    /\ Cardinality(wf.merged) = Len(ACTION_CALIBRATION_DEFINITIONS)
    /\ \E snap \in snapshots : snap.content.appSearchSteps = "custom"
    /\ file = <<CalibrateAllProfile>>

\* The calls runCalibrateAllStep made for step n, by name.
StepCalls(n) ==
    LET entries == SelectSeq(trace, LAMBDA e : e.step = n)
    IN [i \in DOMAIN entries |-> entries[i].call]

\* The calls of a step that completes: the hooks that are installed around
\* the action.
CompleteCalls == IF Hooked THEN <<"beforeStep", "action", "afterStep">> ELSE <<"action">>

IsPrefix(a, b) == Len(a) <= Len(b) /\ a = SubSeq(b, 1, Len(a))

\* C17: for every step the engine calls beforeStep, the action and afterStep
\* in that order; when one of them raises, onStepError is called once for
\* that step with the error, the same error leaves the workflow, and no later
\* step is started.
C17_HooksInOrderAndErrorsStop ==
    /\ \A i \in 2..Len(trace) : trace[i - 1].step <= trace[i].step
    /\ \A n \in 1..wf.step :
         LET calls == StepCalls(n) IN
         /\ \/ IsPrefix(calls, CompleteCalls)
            \/ /\ Len(calls) >= 2
               /\ calls[Len(calls)] = "onStepError"
               /\ IsPrefix(SubSeq(calls, 1, Len(calls) - 1), CompleteCalls)
               /\ n = wf.step
               /\ pc \in {"caRejected", "done"}
               /\ wf.error = trace[Len(trace)].error
               /\ wf.error # <<>>
               /\ (pc = "done" => result = "error")
         /\ (n < wf.step => calls = CompleteCalls)
    /\ (Hooked /\ wf.step >= 1 /\ (pc = "caRejected" \/ (pc = "done" /\ result = "error")))
         => trace[Len(trace)] = [step |-> wf.step, call |-> "onStepError", error |-> wf.error]

C17_Witness ==
    /\ Hooked /\ pc = "done" /\ result = "error"
    /\ wf.step = 5
    /\ StepCalls(4) = <<"beforeStep", "action", "afterStep">>
    /\ StepCalls(5) = <<"beforeStep", "action", "afterStep", "onStepError">>
    /\ wf.error = <<"operator marked failed">>

\* C18: after an interrupt at a prompt the workflow only unwinds: no step
\* is started, nothing is retried, and the command ends with the
\* "canceled by user" condition at the top level.
C18_InterruptCancelsWorkflow ==
    wf.interrupted =>
        /\ pc \in {"caPrompted", "caCatch", "caRejected", "done"}
        /\ (pc # "caPrompted" => wf.error = <<"canceled by user">>)
        /\ (pc = "done" => (result = "error" /\ wf.topLevel = "canceled by user"))

\* C19: a prompt whose promise has settled, by Enter, the end of the input,
\* an interrupt or its timeout, has a closed readline interface and no
\* running timer; none is left when the command has ended.
C19_PromptLeavesNothingRunning ==
    /\ (prompt.outcome # "pending")
         => (prompt.listener = "closed" /\ prompt.timer # "running")
    /\ (pc = "done") => (prompt.listener # "open" /\ prompt.timer # "running")

C19_Witness ==
    /\ pc = "caPrompted"
    /\ prompt.kind = "point" /\ prompt.outcome = "rejected"
    /\ prompt.listener = "closed" /\ prompt.timer = "cleared"
    /\ prompt.sample = "outside"

\* C20: under the checkpoint driver, once the operator marks a step failed
\* or a step raises, no further step is started, one failure report is
\* written and the command ends with an error; the profile is not renamed or
\* written unless the failing step is the persist step itself.
C20_FailureReportedOnceAndRunAborted ==
    Hooked =>
        /\ wf.reports <= 1
        /\ (wf.reports = 1 => pc = "done")
        /\ (wf.operatorVerdict = "fail" => pc \in {"caCatch", "caRejected", "done"})
        /\ (wf.error # <<>> =>
              /\ pc \in {"caCatch", "caRejected", "done"}
              /\ (wf.step < TotalSteps => (wf.writes = 0 /\ wf.renames = 0)))
        /\ (pc = "done" /\ wf.error # <<>>) => (wf.reports = 1 /\ result = "error")

C20_Witness ==
    /\ Hooked /\ pc = "done" /\ result = "error"
    /\ wf.operatorVerdict = "fail"
    /\ wf.step = 3
    /\ wf.reports = 1
    /\ wf.topLevel = "stopped after operator-marked failure"
    /\ file # <<>> /\ snapshots = {}

----------------------------------------------------------------------------
(* Coordinate conversions: src/automation/timing.ts, constants of utils.ts *)

INSET_LEFT == 10

INSET_TOP == 48

INSET_RIGHT == 10

INSET_BOTTOM == 10

COORD_SCALE == 1

\* One comma-separated piece of a bounds payload: decimal digits with an
\* optional sign, nothing but white space, or any other text.
Token(text, v) == [text |-> text, v |-> v]

IntToken(n) == Token("digits", n)

\* Number(trim(value)): digits give their value, a blank piece gives 0,
\* other text gives NaN.
Number(token) ==
    IF token.text = "digits" THEN JsonNumber(token.v)
    ELSE IF token.text = "blank" THEN JsonNumber(0)
    ELSE NotANumber

\* parseBoundsTuple, lines 34-47: four pieces, none of them NaN.
parseBoundsTuple(raw) ==
    LET values == [i \in 1..Len(raw) |-> Number(raw[i])]
    IN IF Len(values) # 4 \/ \E i \in 1..Len(values) : ~values[i].number
       THEN [error |-> "Could not parse bounds payload", bounds |-> <<>>]
       ELSE [error |-> "",
             bounds |-> <<[x1 |-> values[1].v, y1 |-> values[2].v,
                           x2 |-> values[3].v, y2 |-> values[4].v]>>]

Rejected(message) == [error |-> message, region |-> <<>>]

\* The region left after the insets, scaled (lines 104-122).
\* Variant that skips the check of lines 107-109.
insetRegion_Unchecked(parsed) ==
    LET contentWidth == (parsed.x2 - parsed.x1) - INSET_LEFT - INSET_RIGHT
        contentHeight == (parsed.y2 - parsed.y1) - INSET_TOP - INSET_BOTTOM
    IN [error |-> "",
        region |-> <<[x |-> (parsed.x1 + INSET_LEFT) * COORD_SCALE,
                      y |-> (parsed.y1 + INSET_TOP) * COORD_SCALE,
                      width |-> contentWidth * COORD_SCALE,
                      height |-> contentHeight * COORD_SCALE]>>]
insetRegion(parsed) ==
    LET contentWidth == (parsed.x2 - parsed.x1) - INSET_LEFT - INSET_RIGHT
        contentHeight == (parsed.y2 - parsed.y1) - INSET_TOP - INSET_BOTTOM
    IN IF contentWidth <= 0 \/ contentHeight <= 0
       THEN Rejected("Invalid content region after applying insets.")
       ELSE IF COORD_SCALE < 1
       THEN Rejected("COORD_SCALE must be a positive integer (1 or greater).")
       ELSE [error |-> "",
             region |-> <<[x |-> (parsed.x1 + INSET_LEFT) * COORD_SCALE,
                           y |-> (parsed.y1 + INSET_TOP) * COORD_SCALE,
                           width |-> contentWidth * COORD_SCALE,
                           height |-> contentHeight * COORD_SCALE]>>]

\* getContentRegion, lines 93-123.
getContentRegion(bounds) ==
    IF Len(bounds) = 0 THEN Rejected("Mirroring bounds were empty.")
    ELSE LET parsed == parseBoundsTuple(bounds)
         IN IF parsed.error # "" THEN Rejected(parsed.error)
            ELSE IF parsed.bounds[1].x2 - parsed.bounds[1].x1 <= 0
                    \/ parsed.bounds[1].y2 - parsed.bounds[1].y1 <= 0
            THEN Rejected("Invalid mirroring window bounds")
            ELSE insetRegion(parsed.bounds[1])

\* A relative coordinate n/d.
Frac(n, d) == [n |-> n, d |-> d]

\* Math.round of the rational p/q, q > 0: the nearest integer, a half goes up.
MathRound(p, q) == (2 * p + q) \div (2 * q)

\* relToAbs, lines 125-134 (relToAbsWithRegion, lines 136-145, is the same
\* computation): Math.round(region.x + region.width * rx), likewise for y.
\* Variant that truncates instead of rounding.
relToAbs_Truncates(rx, ry, region) ==
    [x |-> (region.x * rx.d + region.width * rx.n) \div rx.d,
     y |-> (region.y * ry.d + region.height * ry.n) \div ry.d]
relToAbs(rx, ry, region) ==
    [x |-> MathRound(region.x * rx.d + region.width * rx.n, rx.d),
     y |-> MathRound(region.y * ry.d + region.height * ry.n, ry.d)]

\* absToRel, lines 169-174: (ax - region.x) / region.width, likewise for y;
\* a region of width or height 0 is refused.
\* Variant that forgets the region's origin.
absToRel_IgnoresOrigin(ax, ay, region) ==
    IF region.width = 0 \/ region.height = 0 THEN <<>>
    ELSE <<[x |-> Frac(ax, region.width), y |-> Frac(ay, region.height)]>>
absToRel(ax, ay, region) ==
    IF region.width = 0 \/ region.height = 0 THEN <<>>
    ELSE <<[x |-> Frac(ax - region.x, region.width),
            y |-> Frac(ay - region.y, region.height)]>>

\* session.getContentRegion, session.ts lines 98-101, on the payload drawn.
GetContentRegion ==
    /\ cmd = "convert"
    /\ geo.stage = "drawn"
    /\ LET got == getContentRegion(geo.bounds)
       IN geo' = [geo EXCEPT !.stage = IF got.error = "" THEN "region" ELSE "rejected",
                             !.region = got.region,
                             !.error = got.error]
    /\ UNCHANGED <<config, disk, store, engine, focus, update, typing, launchState,
                   pc, stack, phase, obs, result>>

\* session.relToAbs, session.ts lines 102-108.
RelToAbs ==
    /\ cmd = "convert"
    /\ geo.stage = "region"
    /\ geo' = [geo EXCEPT !.stage = "abs",
                          !.abs = <<relToAbs(geo.rel.x, geo.rel.y, geo.region[1])>>]
    /\ UNCHANGED <<config, disk, store, engine, focus, update, typing, launchState,
                   pc, stack, phase, obs, result>>

\* session.absToRel, session.ts lines 109-116, on the point just computed.
AbsToRel ==
    /\ cmd = "convert"
    /\ geo.stage = "abs"
    /\ geo' = [geo EXCEPT !.stage = "back",
                          !.back = absToRel(geo.abs[1].x, geo.abs[1].y, geo.region[1])]
    /\ UNCHANGED <<config, disk, store, engine, focus, update, typing, launchState,
                   pc, stack, phase, obs, result>>

GeometryNext == GetContentRegion \/ RelToAbs \/ AbsToRel

\* Bound on the denominators of the relative coordinates drawn.
MaxDenominator == 3

\* Relative coordinates in [0, 1], and the 0.91 of the launch-result tap.
RelValues ==
    {f \in {Frac(n, d) : n \in 0..MaxDenominator, d \in 1..MaxDenominator} : f.n <= f.d}
    \union {Frac(91, 100)}

\* Bounds payloads: windows around the sizes the insets leave nothing of,
\* the window of a usual session, windows with no extent or inverted, one
\* left of the screen's origin, and payloads parseBoundsTuple refuses.
BoundsPayloads ==
    {<<IntToken(100), IntToken(100), IntToken(x2), IntToken(y2)>> :
        x2 \in {90, 100, 120, 121, 500}, y2 \in {90, 100, 158, 159, 700}}
    \union {<<IntToken(0 - 50), IntToken(0), IntToken(350), IntToken(600)>>,
            <<IntToken(100), Token("blank", 0), IntToken(500), IntToken(700)>>,
            <<IntToken(100), Token("word", 0), IntToken(500), IntToken(700)>>,
            <<IntToken(100), IntToken(100), IntToken(500)>>,
            <<IntToken(100), IntToken(100), IntToken(500), IntToken(700), IntToken(1)>>,
            <<>>}

InitGeometry ==
    /\ cmd = "convert"
    /\ cfgShortcuts = TRUE
    /\ app = "chrome"
    /\ flow = APP_FLOW_DEFINITIONS[app]
    /\ points = {}
    /\ query = <<>>
    /\ pc = "done"
    /\ geo \in {[NoGeometry EXCEPT !.stage = "drawn", !.bounds = b,
                                   !.rel = [x |-> rx, y |-> ry]] :
                  b \in BoundsPayloads, rx \in RelValues, ry \in RelValues}
    /\ focus = NoFocus
    /\ update = NoUpdate
    /\ InitDisk
    /\ InitStore
    /\ InitEngine
    /\ stack = <<>>
    /\ phase = "plain"
    /\ attempts = <<>>
    /\ attemptNo = 0
    /\ usedSearchShortcut = FALSE
    /\ lastError = FALSE
    /\ result = "running"
    /\ obs = InitObs
    /\ stepIndex = 0
    /\ typed = <<>>
    /\ shots = <<>>

SpecGeometry == InitGeometry /\ [][GeometryNext]_vars

----------------------------------------------------------------------------
(* Properties of the coordinate conversions                                *)

\* The payload's four numbers, when parseBoundsTuple accepts it.
ParsedBounds == parseBoundsTuple(geo.bounds).bounds

\* C22: getContentRegion never returns a region whose width or height is
\* zero or negative, and bounds with x2 <= x1 or y2 <= y1 are rejected
\* before any region is computed.
C22_RegionIsPositiveAndEmptyWindowsRejected ==
    (geo.stage \notin {"none", "drawn"}) =>
        /\ \A i \in 1..Len(geo.region) :
              geo.region[i].width > 0 /\ geo.region[i].height > 0
        /\ \A i \in 1..Len(ParsedBounds) :
              (ParsedBounds[i].x2 <= ParsedBounds[i].x1
               \/ ParsedBounds[i].y2 <= ParsedBounds[i].y1)
              => (geo.stage = "rejected" /\ geo.region = <<>>
                  /\ geo.error = "Invalid mirroring window bounds")

\* A window 20 wide, exactly as wide as the two side insets, was refused.
C22_Witness ==
    /\ geo.stage = "rejected"
    /\ geo.bounds = <<IntToken(100), IntToken(100), IntToken(120), IntToken(700)>>
    /\ geo.error = "Invalid content region after applying insets."

\* C23: with insets 10/48/10/10 and scale 1 the bounds (100, 100, 500, 700)
\* give the region x = 110, y = 148, width = 380, height = 542, in which
\* (0.5, 0.91) converts to (300, 641); in general the absolute point is
\* x = round(region.x + region.width * relX), y = round(region.y +
\* region.height * relY).
C23_RegionAndAbsoluteOfExample ==
    /\ (geo.stage \in {"region", "abs", "back"}
        /\ geo.bounds = <<IntToken(100), IntToken(100), IntToken(500), IntToken(700)>>)
       => geo.region = <<[x |-> 110, y |-> 148, width |-> 380, height |-> 542]>>
    /\ (geo.stage \in {"abs", "back"}
        /\ geo.bounds = <<IntToken(100), IntToken(100), IntToken(500), IntToken(700)>>
        /\ geo.rel = [x |-> Frac(1, 2), y |-> Frac(91, 100)])
       => geo.abs = <<[x |-> 300, y |-> 641]>>
    /\ (geo.stage \in {"abs", "back"}) =>
          LET r == geo.region[1]
              a == geo.abs[1]
              rx == geo.rel.x
              ry == geo.rel.y
          IN \* a is the integer nearest to r.x + r.width * rx, a half going up
             /\ 2 * (r.x * rx.d + r.width * rx.n) - rx.d < 2 * a.x * rx.d
             /\ 2 * a.x * rx.d <= 2 * (r.x * rx.d + r.width * rx.n) + rx.d
             /\ 2 * (r.y * ry.d + r.height * ry.n) - ry.d < 2 * a.y * ry.d
             /\ 2 * a.y * ry.d <= 2 * (r.y * ry.d + r.height * ry.n) + ry.d

C23_Witness ==
    /\ geo.stage = "abs"
    /\ geo.bounds = <<IntToken(100), IntToken(100), IntToken(500), IntToken(700)>>
    /\ geo.rel = [x |-> Frac(1, 2), y |-> Frac(91, 100)]
    /\ geo.abs = <<[x |-> 300, y |-> 641]>>

\* C24: in a region of positive width and height, converting a relative
\* point of [0,1] x [0,1] to absolute and back recovers relX within 1/width
\* and relY within 1/height.
C24_RoundTripWithinOnePixel ==
    (geo.stage = "back") =>
        /\ Len(geo.back) = 1
        /\ LET r == geo.region[1]
               b == geo.back[1]
               dx == b.x.n * geo.rel.x.d * r.width - geo.rel.x.n * b.x.d * r.width
               dy == b.y.n * geo.rel.y.d * r.height - geo.rel.y.n * b.y.d * r.height
           IN \* |b.x - rel.x| < 1 / r.width, cleared of denominators
              /\ dx < b.x.d * geo.rel.x.d /\ 0 - dx < b.x.d * geo.rel.x.d
              /\ dy < b.y.d * geo.rel.y.d /\ 0 - dy < b.y.d * geo.rel.y.d

\* A conversion that does not land on a pixel: 2/3 of a width of 380.
C24_Witness ==
    /\ geo.stage = "back"
    /\ geo.region = <<[x |-> 110, y |-> 148, width |-> 380, height |-> 542]>>
    /\ geo.rel = [x |-> Frac(2, 3), y |-> Frac(1, 3)]
    /\ geo.back[1].x # geo.rel.x

----------------------------------------------------------------------------
(* Properties of the content region in use                                 *)

\* C21: every conversion between relative and absolute coordinates uses a
\* content region computed from the window bounds queried for that
\* interaction: a region computed before the mirror window moved is never
\* used afterwards.
C21_RegionIsOfTheCurrentWindow ==
    \A c \in wf.conversions : c.region = c.window

----------------------------------------------------------------------------
(* updateActionPointInProfile on its own: flow/profile-store               *)

\* One call. The function builds its result from spreads of the argument and
\* assigns to no part of it (lines 245-258), so the caller's object is after
\* the call what it was before.
UpdateActionPointInProfile ==
    /\ cmd = "updateActionPoint"
    /\ update.stage = "drawn"
    /\ update' = [update EXCEPT
                    !.stage = "updated",
                    !.argument = update.profile,
                    !.returned = <<updateActionPointInProfile(update.profile[1], update.target,
                                                             update.point, update.now)>>]
    /\ UNCHANGED <<config, disk, store, engine, geo, focus, typing, launchState,
                   pc, stack, phase, obs, result>>

UpdateNext == UpdateActionPointInProfile

\* Profiles with any of three action points stored, each at either point.
UpdateProfiles ==
    {[parses |-> TRUE, generatedAt |-> 0, homeSearchButton |-> "p",
      appSearchSteps |-> "default",
      appActionPoints |-> {[id |-> t, point |-> at[t]] : t \in stored}] :
        stored \in SUBSET CalibrateTargets, at \in [CalibrateTargets -> CapturedPoints]}

InitUpdate ==
    /\ cmd = "updateActionPoint"
    /\ cfgShortcuts = TRUE
    /\ app = "chrome"
    /\ flow = APP_FLOW_DEFINITIONS[app]
    /\ points = {}
    /\ query = <<>>
    /\ pc = "done"
    /\ update \in {[NoUpdate EXCEPT !.stage = "drawn", !.profile = <<p>>, !.target = t,
                                     !.point = c, !.now = n] :
                     p \in UpdateProfiles, t \in CalibrateTargets,
                     c \in CapturedPoints, n \in 1..MaxClock}
    /\ geo = NoGeometry
    /\ focus = NoFocus
    /\ InitDisk
    /\ InitStore
    /\ InitEngine
    /\ stack = <<>>
    /\ phase = "plain"
    /\ attempts = <<>>
    /\ attemptNo = 0
    /\ usedSearchShortcut = FALSE
    /\ lastError = FALSE
    /\ result = "running"
    /\ obs = InitObs
    /\ stepIndex = 0
    /\ typed = <<>>
    /\ shots = <<>>

SpecUpdate == InitUpdate /\ [][UpdateNext]_vars

\* C25: updateActionPointInProfile returns a new profile in which
\* points.appActionPoints[app][action] is the given point and generatedAt is
\* updated; every other field of the result equals the input's, and the
\* input is not modified.
C25_OnlyThePointAndTheDateChange ==
    (update.stage = "updated") =>
        LET before == update.profile[1]
            after == update.returned[1]
        IN /\ {e \in after.appActionPoints : e.id = update.target}
                 = {[id |-> update.target, point |-> update.point]}
           /\ after.generatedAt = update.now
           /\ {e \in after.appActionPoints : e.id # update.target}
                 = {e \in before.appActionPoints : e.id # update.target}
           /\ after.homeSearchButton = before.homeSearchButton
           /\ after.appSearchSteps = before.appSearchSteps
           /\ after.parses = before.parses
           /\ update.argument = update.profile

\* chrome:ellipsis moved from q to p in a profile that also stores
\* chrome:searchIcon and tiktok:ellipsis.
C25_Witness ==
    /\ update.stage = "updated"
    /\ update.target = ActionId("chrome", "ellipsis")
    /\ update.point = "p"
    /\ [id |-> ActionId("chrome", "ellipsis"), point |-> "q"] \in update.profile[1].appActionPoints
    /\ [id |-> ActionId("chrome", "searchIcon"), point |-> "q"] \in update.returned[1].appActionPoints
    /\ [id |-> ActionId("tiktok", "ellipsis"), point |-> "p"] \in update.returned[1].appActionPoints
    /\ update.returned[1].generatedAt = 2

----------------------------------------------------------------------------
(* Properties of single-action calibration                                 *)

\* C26: in single-action calibration a captured point whose fraction of the
\* content region lies outside [0, 1] is rejected with a diagnostic that
\* includes a remediation command, and the profile is left as it was: no
\* backup is made and nothing is written.
C26_OutsidePointRejectedProfileUntouched ==
    [][ (job.kind = "calibrateAction" /\ job'.diagnostic # <<>>)
        => /\ result' = "error"
           /\ job'.diagnostic[1].message = "is outside the current mirrored content region"
           /\ job'.diagnostic[1].remediation = "bun run capture -- --calibrate"
           /\ file' = file /\ file = job.existing
           /\ snapshots' = snapshots ]_vars

\* chrome:ellipsis was being calibrated over an existing profile, the
\* pointer was outside the region, and the file is there with no snapshot.
C26_Witness ==
    /\ job.diagnostic = <<OutsideRegionDiagnostic(ActionId("chrome", "ellipsis"))>>
    /\ result = "error"
    /\ file # <<>>
    /\ snapshots = {}

----------------------------------------------------------------------------
(* ensureMirrorFrontmost: automation/interaction, lines 58-79, and the     *)
(* method of the same name in automation.ts, lines 1215-1230               *)

MIRROR_APP_NAME == "iPhone Mirroring"

MIRROR_APP_FALLBACK == "QuickTime Player"

\* What getFrontmostProcess can answer: a mirroring host, another
\* application, or "unknown" when the query fails.
FrontmostProcesses == {MIRROR_APP_NAME, MIRROR_APP_FALLBACK, "Finder", "unknown"}

\* The loop's condition, `attempt <= 6`.
\* Variant with one more turn.
EnsureLoopContinues_OneMore(attempt) == attempt <= 7
EnsureLoopContinues(attempt) == attempt <= 6

\* Lines 65-70: the frontmost process is asked for; a mirroring host ends the
\* loop with true.
EnsureProbe ==
    /\ cmd = "ensureFrontmost"
    /\ focus.stage = "probe" /\ EnsureLoopContinues(focus.attempt)
    /\ \E frontProcess \in FrontmostProcesses :
         focus' = [focus EXCEPT
                     !.seen = Append(@, frontProcess),
                     !.stage = IF frontProcess \in {MIRROR_APP_NAME, MIRROR_APP_FALLBACK}
                               THEN "returned" ELSE "focus",
                     !.returned = IF frontProcess \in {MIRROR_APP_NAME, MIRROR_APP_FALLBACK}
                                  THEN "true" ELSE @]
    /\ UNCHANGED <<config, disk, store, engine, geo, update, typing, launchState,
                   pc, stack, phase, obs, result>>

\* Lines 73-74: focusMirroring activates a host, or dies when neither host
\* can be activated; then the pause and the loop's increment.
EnsureFocus ==
    /\ cmd = "ensureFrontmost"
    /\ focus.stage = "focus"
    /\ \E activated \in BOOLEAN :
         focus' = IF activated
                  THEN [focus EXCEPT !.activations = @ + 1, !.attempt = @ + 1,
                                     !.stage = "probe"]
                  ELSE [focus EXCEPT !.stage = "returned", !.returned = "died"]
    /\ UNCHANGED <<config, disk, store, engine, geo, update, typing, launchState,
                   pc, stack, phase, obs, result>>

\* Lines 76-78: the loop is over; the frontmost process is asked for once
\* more for the log and false is returned.
EnsureGivesUp ==
    /\ cmd = "ensureFrontmost"
    /\ focus.stage = "probe" /\ ~EnsureLoopContinues(focus.attempt)
    /\ \E frontProcess \in FrontmostProcesses :
         focus' = [focus EXCEPT !.seen = Append(@, frontProcess),
                                !.stage = "returned", !.returned = "false"]
    /\ UNCHANGED <<config, disk, store, engine, geo, update, typing, launchState,
                   pc, stack, phase, obs, result>>

FocusNext == EnsureProbe \/ EnsureFocus \/ EnsureGivesUp

InitFocus ==
    /\ cmd = "ensureFrontmost"
    /\ cfgShortcuts = TRUE
    /\ app = "chrome"
    /\ flow = APP_FLOW_DEFINITIONS[app]
    /\ points = {}
    /\ query = <<>>
    /\ pc = "done"
    /\ focus = [NoFocus EXCEPT !.stage = "probe", !.attempt = 1]
    /\ geo = NoGeometry
    /\ update = NoUpdate
    /\ InitDisk
    /\ InitStore
    /\ InitEngine
    /\ stack = <<>>
    /\ phase = "plain"
    /\ attempts = <<>>
    /\ attemptNo = 0
    /\ usedSearchShortcut = FALSE
    /\ lastError = FALSE
    /\ result = "running"
    /\ obs = InitObs
    /\ stepIndex = 0
    /\ typed = <<>>
    /\ shots = <<>>

\* The function runs to its end: every call it makes returns or raises.
SpecFocus == InitFocus /\ [][FocusNext]_vars /\ WF_vars(FocusNext)

\* C29: ensureMirrorFrontmost makes at most 6 attempts to bring the mirror
\* window frontmost and then reports failure to its caller.
C29_EnsureEndsAfterSixAttempts ==
    /\ [](focus.activations <= 6)
    /\ [](focus.returned = "false" =>
            (focus.activations = 6 /\ Len(focus.seen) = 7
             /\ \A i \in 1..6 : focus.seen[i] \notin {MIRROR_APP_NAME, MIRROR_APP_FALLBACK}))
    /\ <>(focus.returned # "none")

\* Six activations did not bring a mirroring host to the front.
C29_Witness ==
    /\ focus.returned = "false"
    /\ focus.activations = 6
    /\ focus.seen = <<"Finder", "Finder", "unknown", "Finder", "Finder", "Finder", "Finder">>

----------------------------------------------------------------------------
(* Properties of configuration errors and of the search placement          *)

\* C27: a configuration error (a missing or invalid profile, invalid
\* tap-sequence syntax, circular prerequisites) is always fatal: it is never
\* caught and followed by a retry, a further launch attempt or a fallback.
C27_ConfigurationErrorIsFatal ==
    [][ (obs.failure = "missingOrInvalidProfile")
        => (obs'.started = obs.started /\ obs'.fallbackCalls = obs.fallbackCalls) ]_vars

\* C28: in capture mode a calibration file that is missing or cannot be
\* parsed makes the run fail with the message that tells the operator to run
\* calibration, before any tap, drag, keystroke or typed character is sent.
C28_MissingProfileFailsBeforeAnyInput ==
    (cmd = "capture" /\ ~ProfileLoads) =>
        /\ ~obs.uiDone
        /\ typed = <<>> /\ shots = <<>>
        /\ obs.started = {} /\ obs.fallbackCalls = 0
        /\ pc \in {"rfStart", "rfProfile", "done"}
        /\ (pc = "done") => (result = "error")
        /\ obs.failure \in {"", "missingOrInvalidProfile"}

\* The mirror was focused, the file was not there, the run ended.
C28_Witness ==
    /\ cmd = "capture" /\ file = <<>>
    /\ pc = "done" /\ result = "error"
    /\ obs.failure = "missingOrInvalidProfile"
    /\ obs.lastEv = "verify"
    /\ ~obs.uiDone

\* The search placement of the capture flow is over.
PlacementDone == cmd = "capture" /\ pc \in {"rfClear", "tcStart"}

\* C30: during capture, when the app's calibrated in-app search point (for
\* example chrome:searchBar) exists, only that point is tapped; otherwise the
\* flow falls back to the app's appSearchSteps tap sequence from the profile.
C30_PlacementUsesPointElseProfileSteps ==
    PlacementDone =>
        IF flow.inAppSearchPoint # "" /\ getActionPoint(flow.inAppSearchPoint)
        THEN obs.tapSteps = <<>> /\ obs.lastTap.target = flow.inAppSearchPoint
        ELSE obs.tapSteps = <<"profile.appSearchSteps">>

----------------------------------------------------------------------------
(* C39: after a launch attempt fails, a settle-delay step is executed     *)
(* before the next attempt, or the home-icon fallback, begins: no attempt  *)
(* and no fallback ever began while a failure was still unsettled.         *)
C39_SettleStepAfterFailedAttempt ==
    /\ ~obs.beganUnsettled
    /\ (pc = "attemptBegin" /\ obs.raised # {}) => ~obs.unsettled

\* Both attempts failed, each followed by its settle step, and the fallback
\* has begun.
C39_Witness ==
    /\ Cardinality(obs.raised) = 2
    /\ obs.fallbackCalls = 1
    /\ obs.settles = {"search-launch-retry-switch", "search-fallback-switch"}
    /\ ~obs.unsettled

\* The search attempt that ran last.
LastStartedAttempt == CHOOSE n \in obs.started : \A m \in obs.started : m <= n

\* C35: openAppBySearchWithFallback returns to its caller only when the
\* last launch path it ran completed without error (the last search
\* attempt that ran when there was no fallback, the home-icon fallback
\* otherwise), and the home-icon fallback is started only after the last
\* search attempt of the list raised an error.
C35_SuccessOnlyAfterLastPathCompleted ==
    /\ (pc = "launched" \/ (LaunchFinished /\ result = "success")) =>
          IF obs.fallbackCalls > 0
          THEN obs.fallbackOutcome = "returned"
          ELSE obs.started # {} /\ LastStartedAttempt \notin obs.raised
    /\ obs.fallbackCalls > 0 =>
          /\ Len(attempts) \in obs.started
          /\ Len(attempts) \in obs.raised
          /\ attemptNo = Len(attempts)

\* Attempt 1 raised, attempt 2 completed, and the launch returned without
\* the fallback.
C35_Witness ==
    /\ LaunchFinished /\ result = "success"
    /\ obs.raised = {1} /\ obs.started = {1, 2}
    /\ obs.fallbackCalls = 0

\* Both attempts raised and the fallback returned.
C35_WitnessFallback ==
    /\ LaunchFinished /\ result = "success"
    /\ obs.raised = {1, 2} /\ obs.fallbackOutcome = "returned"

\* C37: ensureMirrorFrontmost returns false only if the mirror host was not
\* the frontmost process at the last probe it made; whenever its final probe
\* sees the mirror host frontmost it returns true.
C37_FalseOnlyWhenLastProbeMissedTheMirror ==
    (focus.returned \in {"true", "false"} /\ focus.seen # <<>>) =>
        ( (focus.returned = "true")
          <=> (focus.seen[Len(focus.seen)] \in {MIRROR_APP_NAME, MIRROR_APP_FALLBACK}) )

----------------------------------------------------------------------------
(* C32: if a profile file exists when a calibration command starts, a      *)
(* profile file exists at that path when the command ends, normally or     *)
(* with an error: whenever a command ends, a file that was there at its    *)
(* start (still there, or renamed to a snapshot during this command) has   *)
(* a file at the path.                                                     *)
C32_ProfilePathNeverLeftEmpty ==
    [][ ( /\ pc # "cbIdle" /\ pc' = "cbIdle"
          /\ (file # <<>> \/ \E snap \in snapshots : snap.at = clock) )
        => file' # <<>> ]_vars

----------------------------------------------------------------------------
----------------------------------------------------------------------------
(* Clicks: automation/interaction (applyAbsClickPoint, clickRel,           *)
(* tapSequence) and parseTapSteps of automation/timing.ts                  *)

\* A piece of a tap-sequence step: a signed decimal, or other text.
DecimalToken(f) == [text |-> "decimal", v |-> f]

WordToken == [text |-> "word", v |-> Frac(0, 1)]

\* validateRelativeToken, timing.ts lines 49-62: the token must match
\* RELATIVE_TOKEN_RE, a signed decimal of any size.
validateRelativeToken(token) == token.text = "decimal"

\* parseTapSteps, timing.ts lines 64-87, with the values it returns: at
\* least one step, two tokens to a step, each a signed decimal; the values
\* are taken as they are.
parseTapStepValues(raw) ==
    IF Len(raw) = 0 THEN [error |-> "no steps", steps |-> <<>>]
    ELSE IF \E i \in 1..Len(raw) : Len(raw[i]) # 2
    THEN [error |-> "Expected 'x,y'", steps |-> <<>>]
    ELSE IF \E i \in 1..Len(raw) : \E j \in 1..2 : ~validateRelativeToken(raw[i][j])
    THEN [error |-> "Invalid relative token", steps |-> <<>>]
    ELSE [error |-> "",
          steps |-> [i \in 1..Len(raw) |-> [x |-> raw[i][1].v, y |-> raw[i][2].v]]]

\* The test of applyAbsClickPoint, line 37, negated: the point is inside
\* the content region, its far edges included.
InsideContentRegion(point, region) ==
    /\ point.x >= region.x /\ point.x <= region.x + region.width
    /\ point.y >= region.y /\ point.y <= region.y + region.height

\* tapSequence, interaction lines 62-66: focus, then parseTapSteps.
TapSequence ==
    /\ cmd = "tap"
    /\ geo.stage = "drawn"
    /\ \E o \in EnsureOutcomes :
         LET parsed == parseTapStepValues(geo.steps)
         IN IF o # "front"
            THEN geo' = [geo EXCEPT !.stage = "died", !.error = "focus"]
            ELSE IF parsed.error # ""
            THEN geo' = [geo EXCEPT !.stage = "died", !.error = parsed.error]
            ELSE geo' = [geo EXCEPT !.stage = "tapping", !.rel = parsed.steps]
    /\ UNCHANGED <<config, disk, store, engine, focus, update, typing, launchState,
                   pc, stack, phase, obs, result>>

\* clickRel for the next step (interaction lines 24-47 and 67-70):
\* applyAbsClickPoint verifies the focus, validateRelativePair passes every
\* finite pair, the content region is computed, the point converted, a
\* point outside the region is logged, and cliclick is run on the point.
ClickRel ==
    /\ cmd = "tap"
    /\ geo.stage = "tapping"
    /\ \E o \in EnsureOutcomes, click \in {"clicked", "commandFailed"} :
         LET got == getContentRegion(geo.bounds)
             step == Head(geo.rel)
         IN IF o # "front"
            THEN geo' = [geo EXCEPT !.stage = "died", !.error = "focus"]
            ELSE IF got.error # ""
            THEN geo' = [geo EXCEPT !.stage = "died", !.error = got.error]
            ELSE IF click # "clicked"
            THEN geo' = [geo EXCEPT !.stage = "died", !.error = "cliclick",
                                    !.region = got.region]
            ELSE geo' = [geo EXCEPT
                           !.region = got.region,
                           !.clicked = Append(@, relToAbs(step.x, step.y, got.region[1])),
                           !.rel = Tail(@),
                           !.stage = IF Len(geo.rel) = 1 THEN "tapped" ELSE "tapping"]
    /\ UNCHANGED <<config, disk, store, engine, focus, update, typing, launchState,
                   pc, stack, phase, obs, result>>

ClickNext == TapSequence \/ ClickRel

\* Tokens of the sequences drawn: values inside [0, 1], one above 1, one
\* below 0, and a word.
TapTokens ==
    {DecimalToken(f) : f \in {Frac(0, 1), Frac(1, 2), Frac(1, 1), Frac(3, 2), Frac(0 - 1, 2)}}
    \union {WordToken}

TapStepShapes == {<<tx, ty>> : tx \in TapTokens, ty \in TapTokens} \union {<<WordToken>>}

\* Bound on the number of steps of a sequence.
MaxTapSteps == 2

TapSequences ==
    {<<>>} \union {<<a>> : a \in TapStepShapes}
    \union (IF MaxTapSteps >= 2
            THEN {<<a, b>> : a \in {<<DecimalToken(Frac(1, 2)), DecimalToken(Frac(1, 2))>>},
                             b \in TapStepShapes}
            ELSE {})

InitClick ==
    /\ cmd = "tap"
    /\ cfgShortcuts = TRUE
    /\ app = "chrome"
    /\ flow = APP_FLOW_DEFINITIONS[app]
    /\ points = {}
    /\ query = <<>>
    /\ pc = "done"
    /\ geo \in {[NoGeometry EXCEPT !.stage = "drawn", !.bounds = b, !.steps = t] :
                  b \in {<<IntToken(100), IntToken(100), IntToken(500), IntToken(700)>>,
                         <<IntToken(0 - 50), IntToken(0), IntToken(350), IntToken(600)>>,
                         <<>>},
                  t \in TapSequences}
    /\ focus = NoFocus
    /\ update = NoUpdate
    /\ InitDisk
    /\ InitStore
    /\ InitEngine
    /\ stack = <<>>
    /\ phase = "plain"
    /\ attempts = <<>>
    /\ attemptNo = 0
    /\ usedSearchShortcut = FALSE
    /\ lastError = FALSE
    /\ result = "running"
    /\ obs = InitObs
    /\ stepIndex = 0
    /\ typed = <<>>
    /\ shots = <<>>

SpecClick == InitClick /\ [][ClickNext]_vars

\* C36: every point dispatched through clickRel, dragRel or tapSequence has
\* absolute coordinates inside the content region computed for that action;
\* a point outside the region is never clicked.
C36_ClicksStayInsideTheContentRegion ==
    \A i \in 1..Len(geo.clicked) : InsideContentRegion(geo.clicked[i], geo.region[1])

----------------------------------------------------------------------------
(* C38: promptAndCapturePoint resolves successfully only after the         *)
(* operator submitted a line (Enter); when the input stream closes without *)
(* a line the prompt does not resolve as a confirmation and no point is    *)
(* captured: the pointer is sampled only after a submitted line.           *)
C38_PointPromptResolvesOnlyOnEnter ==
    /\ (prompt.kind = "point" /\ prompt.outcome = "resolved") => prompt.line
    /\ (pc = "caSample") => prompt.line

----------------------------------------------------------------------------
(* C40: in the checkpoint driver a main workflow step gets the pass/fail   *)
(* verdict prompt after it ran if and only if it got the "press Enter to   *)
(* execute" prompt before it ran, and a transition step delegated to       *)
(* launch sub-steps gets neither main-step prompt.                         *)
C40_VerdictPromptIffEnterPrompt ==
    /\ \A n \in wf.verdictAsked : n \in wf.enterAsked
    /\ \A n \in wf.enterAsked : n < wf.step => n \in wf.verdictAsked
    /\ \A n \in wf.delegated : n \notin wf.enterAsked /\ n \notin wf.verdictAsked

----------------------------------------------------------------------------
(* Calibrate-all over a catalog with a custom target context                *)

\* The shipped catalog with one action whose target context is "custom",
\* the ActionContext the operator reaches by hand.
CatalogWithCustomTarget ==
    [i \in DefinitionIndexes |->
        IF ACTION_CALIBRATION_DEFINITIONS[i].id = ActionId("chrome", "newIncognitoTab")
        THEN [ACTION_CALIBRATION_DEFINITIONS[i] EXCEPT !.autoNavigateTo = "custom"]
        ELSE ACTION_CALIBRATION_DEFINITIONS[i]]

InitCalibrateCustom ==
    /\ cmd \in {"calibrateAll", "debugCalibrateAll"}
    /\ cfgShortcuts = TRUE
    /\ app = "chrome"
    /\ flow = APP_FLOW_DEFINITIONS[app]
    /\ points = {}
    /\ query = <<>>
    /\ pc = "caStart"
    /\ catalog = CatalogWithCustomTarget
    /\ ordering = NotOrdered
    /\ InitWorkflow
    /\ file \in {<<>>} \union {<<p>> : p \in InitialProfiles}
    /\ snapshots = {}
    /\ clock = 0
    /\ job = NoJob
    /\ InitStore
    /\ InitDevice

SpecCalibrateCustom == InitCalibrateCustom /\ [][WorkflowNext]_vars

----------------------------------------------------------------------------
----------------------------------------------------------------------------
(* Calibrate-all without a profile on disk                                  *)

\* C31: a full calibration pass does not depend on a profile already being
\* on disk: started with no profile file, the pass fails only where a UI
\* primitive fails or a captured point lies outside the content region, never
\* for want of a profile, and so reaches its persist step and writes one.
C31_FullPassNeedsNoProfile ==
    (job.kind = "calibrateAll" /\ file = <<>> /\ wf.writes = 0)
        => wf.error # <<MissingProfile>>

\* What the code does instead: a pass that found no profile to load never
\* writes one, since the first navigation that launches an app reads it.
PassWithoutProfileNeverPersists ==
    (job.kind = "calibrateAll" /\ job.existing = <<>>) => wf.writes = 0

====
